---------------------------- MODULE Spec2Model ----------------------------
(***************************************************************************)
(* Condition-driven priority and maintenance-trigger pipeline of the KMRL  *)
(* induction repository.                                                   *)
(*                                                                         *)
(*   priority.py                      the priority service (MQTT callback) *)
(*   job_card_priority_integration.py the job-card priority manager        *)
(*   realtime_consumer.py             the telemetry consumer               *)
(*                                                                         *)
(* Numbers.  Python floats are modelled in fixed point:                    *)
(*   condition scores and priorities in tenths (70.0 is 700),              *)
(*   the weighted sum before rounding in thousandths,                      *)
(*   vibration in 1/10000, temperatures in tenths of a degree.             *)
(* Coach ids "CR101", "CR102", ... are modelled by their numbers, whose    *)
(* order is the order of the strings.                                      *)
(***************************************************************************)
EXTENDS Integers, Sequences, FiniteSets, TLC

VARIABLES
    \* ---- priority.py ----
    coach_data,     \* dict coach_id -> entry, as the sequence of its values in insertion order
    ranked,         \* the list last published on kmrl/priority/ranked
    entry,          \* the entry built by the latest on_message call
    pc,             \* position of the callback thread: "idle" or "posting" (inside requests.post)
    wo_request,     \* the payload of the POST in flight
    wo_result,      \* how the latest POST ended
    evaluations,    \* the on_message calls so far: coach, inputs, urgency, whether a request was posted, the request
    \* ---- job_card_priority_integration.py ----
    mgr_coach_data, \* self.coach_data, values in insertion order
    mgr_entry,      \* the entry returned by the latest update_coach_priority
    mgr_job_card,   \* what the latest create_job_card call did
    rankings,       \* the rankings returned since the latest update
    \* ---- realtime_consumer.py ----
    coach_windows,  \* dict coach -> deque(maxlen=WINDOW_SIZE) of feature vectors
    models,         \* dict coach -> IsolationForest: the arrival number its latest fit ended at, 0 = absent
    received,       \* per coach, number of feature vectors extracted so far
    call,           \* the latest on_message call: its input and how it ended
    out,            \* the condition record last published
    sample,         \* the sample the scorer is applied to when it runs alone
    \* ---- depot_manager.py, enhanced_data_generator.py ----
    depot_data,     \* the depot layout: its tracks and its switches
    path_query,     \* the start and end track of the latest path request
    hops_path,      \* what find_path returned for it
    cost_path,      \* what find_efficient_path returned for it
    stabling_data,  \* the rows generate_advanced_stabling_geometry produced
    depot_file,     \* the file at DEPOT_FILE_PATH: the document it decodes to and its size
    calls,          \* the calls on the layout file: their position, locals and result
    history,        \* the layout last written completely and the statuses confirmed to callers
    \* ---- optimization_engine.py ----
    fleet,          \* dict train id -> Train, as the sequence of its values in insertion order
    depot_layout,   \* the bay pools given to run_stabling_planner
    stage,          \* how far the planning run has come
    \* ---- intelligent_optimization_engine_fallback.py, intelligent_optimization_engine_simple.py ----
    train_recommendations \* the recommendations main has stored so far

vars == << coach_data, ranked, entry, pc, wo_request, wo_result, evaluations,
           mgr_coach_data, mgr_entry, mgr_job_card, rankings,
           coach_windows, models, received, call, out, sample,
           depot_data, path_query, hops_path, cost_path, stabling_data,
           depot_file, calls, history,
           fleet, depot_layout, stage,
           train_recommendations >>

priorityVars == << coach_data, ranked, entry, pc, wo_request, wo_result, evaluations >>
managerVars  == << mgr_coach_data, mgr_entry, mgr_job_card, rankings >>
consumerVars == << coach_windows, models, received, call, out, sample >>
storeVars    == << depot_file, calls, history >>
depotVars    == << depot_data, path_query, hops_path, cost_path, stabling_data, storeVars >>
plannerVars  == << fleet, depot_layout, stage >>
engineVars   == << train_recommendations >>

-----------------------------------------------------------------------------
(* Bounds and input domains *)

MaxEvals == 4       \* priority updates in a run
MaxRanks == 2       \* rankings requested between two updates
MaxObs == 32        \* telemetry events per coach
MaxObsRaw == 16     \* telemetry events per coach when events may be non-finite
MaxUrgencyEvals == 2 \* priority updates in a run that probes the rounding
MaxSwitches == 3     \* switches of a depot layout
MaxHops == 4         \* hops of the routes a returned path is compared with
NumTrains == 2       \* trains of the fleet the stabling table is generated for
MaxFree == 2         \* trains of a planned fleet whose attributes are free
MaxCalls == 3        \* calls on the layout file
MaxRequestEvals == 2 \* condition updates of a run that compares the requests posted
MaxRecommended == 2  \* trains an optimization engine run goes through

Coaches == {101, 102}

\* condition_score values of the payloads, in tenths
CondScores == {200}
Severities == {"Medium", "High", "Critical"}
Criticalities == {40, 70}
TimesSinceMaint == {40}

\* Python's None, and an optional value: <<>> is None, <<v>> is v
None == <<>>
Some(v) == <<v>>

Max(a, b) == IF a >= b THEN a ELSE b
Min(a, b) == IF a <= b THEN a ELSE b

-----------------------------------------------------------------------------
(* config.py, priority.py: constants *)

PRIORITY_THRESHOLD == 700   \* 70.0, in tenths
W1 == 45                    \* 0.45, in hundredths
W2 == 20
W3 == 15
W4 == 20

\* sev_map.get(severity, 40)
sev_map(severity) ==
    CASE severity = "Low" -> 10
      [] severity = "Medium" -> 40
      [] severity = "High" -> 70
      [] severity = "Critical" -> 100
      [] OTHER -> 40

\* round(x, 1) of a value given in thousandths; the result is in tenths.
\* Python rounds the double to the nearest tenth, an exact tie going to the
\* even tenth.  A decimal tie that has no exact double (50.85) goes where its
\* double lies; the inputs of this model produce no such value.
round1(x) ==
    LET q == x \div 100
        r == x % 100
    IN  IF r > 50 \/ (r = 50 /\ q % 2 = 1) THEN q + 1 ELSE q

\* a priority cut to its first decimal instead of rounded to it
compute_priority_truncated(cond_score, severity, criticality, time_since_maint) ==
    (W1 * (1000 - cond_score) + W2 * 10 * criticality
       + W3 * 10 * time_since_maint + W4 * 10 * sev_map(severity)) \div 100

\* compute_priority(cond_score, severity, criticality, time_since_maint):
\* cond_score in tenths, the result in tenths.
compute_priority(cond_score, severity, criticality, time_since_maint) ==
    round1(W1 * (1000 - cond_score) + W2 * 10 * criticality
           + W3 * 10 * time_since_maint + W4 * 10 * sev_map(severity))

-----------------------------------------------------------------------------
(* Python dict and sorted() *)

\* the index of key k in the dict d, 0 when absent
IndexOf(d, k) ==
    IF \E i \in 1..Len(d) : d[i].coach_id = k
    THEN CHOOSE i \in 1..Len(d) : d[i].coach_id = k
    ELSE 0

Keys(d) == {d[i].coach_id : i \in 1..Len(d)}

Get(d, k) == d[IndexOf(d, k)]

\* a mapping that keeps every entry it is given
DictSet_append(d, e) == Append(d, e)

\* d[e.coach_id] = e: an existing key keeps its place, a new key goes last
DictSet(d, e) ==
    IF IndexOf(d, e.coach_id) = 0
    THEN Append(d, e)
    ELSE [d EXCEPT ![IndexOf(d, e.coach_id)] = e]

\* Insert e into the list s, sorted by priority descending, behind every
\* element whose priority is at least e's: the sort is stable, also with
\* reverse=True.
InsertByPriority(s, e) ==
    LET n == Cardinality({i \in 1..Len(s) : s[i].priority >= e.priority})
    IN  SubSeq(s, 1, n) \o <<e>> \o SubSeq(s, n + 1, Len(s))

RECURSIVE SortedFrom(_, _)
SortedFrom(d, acc) ==
    IF d = <<>> THEN acc
    ELSE SortedFrom(Tail(d), InsertByPriority(acc, Head(d)))

\* sorted(coach_data.values(), key=lambda x: x["priority"], reverse=True)
sorted_by_priority(d) == SortedFrom(d, <<>>)

-----------------------------------------------------------------------------
(* priority.py *)

\* a priority that is not clamped from below
wo_priority_unclamped(priority) == Min(5, 6 - (priority \div 200))

\* the priority of the work order: max(1, min(5, int(6 - (priority // 20))))
wo_priority(priority) == Max(1, Min(5, 6 - (priority \div 200)))

\* the payload maybe_create_job_card posts for an entry
wo_payload(e) ==
    [assetnum |-> e.coach_id,
     severity |-> e.fault_severity,
     cond     |-> e.condition_score,
     priority |-> wo_priority(e.priority),
     status   |-> "OPEN"]

\* a trigger whose threshold is exclusive
needs_job_card_exclusive(e) == e.priority > PRIORITY_THRESHOLD

\* maybe_create_job_card: whether the entry gets a work order posted
needs_job_card(e) == ~(e.priority < PRIORITY_THRESHOLD)

\* the entry on_message builds from a payload
make_entry(coach_id, cond_score, severity, criticality, time_since_maint) ==
    [coach_id         |-> coach_id,
     condition_score  |-> cond_score,
     fault_severity   |-> severity,
     criticality      |-> criticality,
     time_since_maint |-> time_since_maint,
     priority         |-> compute_priority(cond_score, severity, criticality,
                                           time_since_maint)]

\* publish_priorities: the ranked list sent to the dashboard
publish_priorities(d) == sorted_by_priority(d)

\* on_message up to the requests.post call of maybe_create_job_card (the
\* whole callback when the priority is under the threshold).
on_message(coach_id, cond_score, severity, criticality, time_since_maint) ==
    LET e == make_entry(coach_id, cond_score, severity, criticality, time_since_maint)
    IN  /\ pc = "idle"
        /\ Len(evaluations) < MaxEvals
        /\ entry' = Some(e)
        /\ coach_data' = DictSet(coach_data, e)
        /\ ranked' = publish_priorities(coach_data')
        /\ evaluations' = Append(evaluations,
              [coach_id |-> coach_id,
               inputs   |-> <<cond_score, severity, criticality, time_since_maint>>,
               urgency  |-> e.priority,
               posted   |-> needs_job_card(e),
               request  |-> IF needs_job_card(e) THEN Some(wo_payload(e)) ELSE None])
        /\ IF needs_job_card(e)
           THEN /\ pc' = "posting"
                /\ wo_request' = Some(wo_payload(e))
           ELSE /\ pc' = "idle"
                /\ wo_request' = None
        /\ UNCHANGED wo_result
        /\ UNCHANGED << managerVars, consumerVars, depotVars, plannerVars, engineVars >>

\* How requests.post can end: the sink answers 2xx, answers an error status,
\* or the call raises (connection refused, timeout).
PostOutcomes == {"ok", "not_ok", "exception"}

\* a delivery whose failure takes the entry back out of coach_data
post_done_rollback(outcome) ==
    /\ pc = "posting"
    /\ pc' = "idle"
    /\ wo_result' = outcome
    /\ wo_request' = None
    /\ coach_data' = IF outcome = "ok" THEN coach_data
                     ELSE SelectSeq(coach_data,
                                    LAMBDA x : x.coach_id # wo_request[1].assetnum)
    /\ UNCHANGED << ranked, entry, evaluations >>
    /\ UNCHANGED << managerVars, consumerVars, depotVars, plannerVars, engineVars >>

\* The rest of maybe_create_job_card: every outcome is printed, an exception
\* is caught, and the callback returns.
post_done(outcome) ==
    /\ pc = "posting"
    /\ pc' = "idle"
    /\ wo_result' = outcome
    /\ wo_request' = None
    /\ UNCHANGED << coach_data, ranked, entry, evaluations >>
    /\ UNCHANGED << managerVars, consumerVars, depotVars, plannerVars, engineVars >>

-----------------------------------------------------------------------------
(* job_card_priority_integration.py: KMRLJobCardPriorityManager.            *)
(* The timestamps (wall clock) and the SQLite and CSV copies of the entries *)
(* and job cards are written and never read back by the manager; they are   *)
(* not part of its state here.                                              *)

\* KMRLJobCardPriorityManager.compute_priority: the same weights and rounding
mgr_compute_priority(condition_score, severity, criticality, time_since_maint) ==
    round1(W1 * (1000 - condition_score) + W2 * 10 * criticality
           + W3 * 10 * time_since_maint + W4 * 10 * sev_map(severity))

\* the entry update_coach_priority builds
mgr_make_entry(coach_id, condition_score, severity, criticality, time_since_maint) ==
    [coach_id         |-> coach_id,
     condition_score  |-> condition_score,
     fault_severity   |-> severity,
     criticality      |-> criticality,
     time_since_maint |-> time_since_maint,
     priority_score   |-> mgr_compute_priority(condition_score, severity,
                                               criticality, time_since_maint)]

\* map_priority_to_text
map_priority_to_text(numeric_priority) ==
    CASE numeric_priority = 1 -> "Low"
      [] numeric_priority = 2 -> "Low"
      [] numeric_priority = 3 -> "Medium"
      [] numeric_priority = 4 -> "High"
      [] numeric_priority = 5 -> "Critical"
      [] OTHER -> "Medium"

\* estimate_hours, in tenths of an hour: 4 * severity_multiplier * priority_multiplier
estimate_hours(e) ==
    LET severity_multiplier ==      \* in tenths
            CASE e.fault_severity = "Low" -> 5
              [] e.fault_severity = "Medium" -> 10
              [] e.fault_severity = "High" -> 15
              [] e.fault_severity = "Critical" -> 25
              [] OTHER -> 10
        priority_multiplier ==      \* in tenths
            IF e.priority_score > 900 THEN 20
            ELSE IF e.priority_score > 700 THEN 15
            ELSE 10
    IN  (4 * severity_multiplier * priority_multiplier) \div 10

\* the payload create_job_card posts
job_card_payload(e) ==
    [Train_ID        |-> e.coach_id,
     Priority        |-> map_priority_to_text(
                             Max(1, Min(5, 6 - (e.priority_score \div 200)))),
     Status          |-> "Open",
     Severity        |-> e.fault_severity,
     Condition_Score |-> e.condition_score,
     Estimated_Hours |-> estimate_hours(e)]

\* create_job_card: the payload is posted; a 2xx answer records the job card,
\* any other answer or an exception is printed and None is returned.
create_job_card(e, outcome) ==
    IF outcome = "ok"
    THEN [result |-> "created", card |-> Some(job_card_payload(e))]
    ELSE [result |-> "failed", card |-> None]

\* ranked = sorted(self.coach_data.values(), key=priority_score, reverse=True)
mgr_insert(s, e) ==
    LET n == Cardinality({i \in 1..Len(s) : s[i].priority_score >= e.priority_score})
    IN  SubSeq(s, 1, n) \o <<e>> \o SubSeq(s, n + 1, Len(s))

RECURSIVE mgr_sorted_from(_, _)
mgr_sorted_from(d, acc) ==
    IF d = <<>> THEN acc
    ELSE mgr_sorted_from(Tail(d), mgr_insert(acc, Head(d)))

mgr_sorted(d) == mgr_sorted_from(d, <<>>)

\* update_coach_priority(coach_data), with the answer of the work-order sink
update_coach_priority(coach_id, condition_score, severity, criticality, time_since_maint, outcome) ==
    LET e == mgr_make_entry(coach_id, condition_score, severity, criticality,
                            time_since_maint)
    IN  /\ mgr_coach_data' = DictSet(mgr_coach_data, e)
        /\ mgr_job_card' = IF e.priority_score >= PRIORITY_THRESHOLD
                           THEN create_job_card(e, outcome)
                           ELSE [result |-> "none", card |-> None]
        /\ mgr_entry' = Some(e)
        /\ rankings' = <<>>
        /\ UNCHANGED << priorityVars, consumerVars, depotVars, plannerVars, engineVars >>

\* a ranking that sorts the stored entries in place
get_priority_rankings_in_place ==
    LET r == mgr_sorted(mgr_coach_data)
    IN  /\ Len(rankings) < MaxRanks
        /\ rankings' = Append(rankings,
              [total_coaches   |-> Len(r),
               high_priority   |-> 0,
               medium_priority |-> 0,
               low_priority    |-> 0,
               ranked_coaches  |-> r])
        /\ mgr_coach_data' = r
        /\ UNCHANGED << mgr_entry, mgr_job_card >>
        /\ UNCHANGED << priorityVars, consumerVars, depotVars, plannerVars, engineVars >>

\* get_priority_rankings: the ranked list and its counts
get_priority_rankings ==
    LET r == mgr_sorted(mgr_coach_data)
        count(lo, hi) == Cardinality({i \in 1..Len(r) :
                             lo <= r[i].priority_score /\ r[i].priority_score < hi})
    IN  /\ Len(rankings) < MaxRanks
        /\ rankings' = Append(rankings,
              [total_coaches   |-> Len(r),
               high_priority   |-> count(700, 100000),
               medium_priority |-> count(400, 700),
               low_priority    |-> count(-100000, 400),
               ranked_coaches  |-> r])
        /\ UNCHANGED << mgr_coach_data, mgr_entry, mgr_job_card >>
        /\ UNCHANGED << priorityVars, consumerVars, depotVars, plannerVars, engineVars >>

-----------------------------------------------------------------------------
(* realtime_consumer.py                                                     *)
(*                                                                          *)
(* A stored feature vector is used by the consumer only as a row handed to  *)
(* IsolationForest, whose answers are inputs of the model; the window keeps *)
(* of each vector its arrival number n (the n-th vector extracted for the   *)
(* coach) and whether all its readings are finite.                          *)

WINDOW_SIZE == 30

\* a warm-up that ends one sample later (<= in place of <)
warm_up_late == Max(10, WINDOW_SIZE \div 2) + 1

\* max(10, WINDOW_SIZE // 2)
warm_up == Max(10, WINDOW_SIZE \div 2)

\* (a * a + b * b) ** 0.5 for non-negative a, b (the readings are chosen so
\* that the root is exact)
Hypot(a, b) ==
    IF b = 0 THEN a
    ELSE IF a = 0 THEN b
    ELSE CHOOSE r \in Max(a, b)..(a + b) : r * r = a * a + b * b

\* extract_features(msg): vibration in 1/10000, temperatures in tenths.
\* defect "nan" is a message whose motor_temp is NaN.
extract_features(s, defect) ==
    [vib    |-> Hypot(s.vibration_axle_1, s.vibration_axle_2),
     btemp  |-> s.bearing_temp_1,
     mtemp  |-> s.motor_temp,
     dcurr  |-> s.door_motor_current,
     finite |-> defect # "nan"]

\* compute_condition_score(is_anomaly, feature_vector), in tenths.
\* max(0, nan) is 0 in Python, so a NaN motor temperature adds no penalty.
compute_condition_score(is_anomaly, fv) ==
    IF is_anomaly THEN 200
    ELSE LET score == 100000 - (fv.vib * 100
                                + Max(0, fv.btemp - 500) * 120
                                + (IF fv.finite THEN Max(0, fv.mtemp - 550) * 80 ELSE 0))
         IN  Max(0, Min(1000, round1(score)))

\* a severity mapping whose boundaries are inclusive
map_severity_inclusive(score) ==
    IF score >= 750 THEN "Low"
    ELSE IF score >= 500 THEN "Medium"
    ELSE IF score >= 300 THEN "High"
    ELSE "Critical"

\* map_severity(score), score in tenths
map_severity(score) ==
    IF score > 750 THEN "Low"
    ELSE IF score > 500 THEN "Medium"
    ELSE IF score > 300 THEN "High"
    ELSE "Critical"

\* a condition record whose criticality placeholder is 100
condition_record_criticality_100(coach, is_anom, fv) ==
    LET condition_score == compute_condition_score(is_anom, fv)
    IN  [coach_id         |-> coach,
         condition_score  |-> condition_score,
         fault_severity   |-> map_severity(condition_score),
         criticality      |-> 100,
         time_since_maint |-> 40]

\* the condition record on_message publishes
condition_record(coach, is_anom, fv) ==
    LET condition_score == compute_condition_score(is_anom, fv)
    IN  [coach_id         |-> coach,
         condition_score  |-> condition_score,
         fault_severity   |-> map_severity(condition_score),
         criticality      |-> 70,
         time_since_maint |-> 40]

\* a window that refuses the new element when it is full
deque_append_keep_oldest(w, x) ==
    IF Len(w) >= WINDOW_SIZE THEN w ELSE Append(w, x)

\* deque(maxlen=WINDOW_SIZE).append(x): a full deque drops its oldest element
deque_append(w, x) ==
    IF Len(w) >= WINDOW_SIZE THEN Append(Tail(w), x) ELSE Append(w, x)

AllFinite(w) == \A i \in 1..Len(w) : w[i].finite

\* on_message(client, userdata, message) of the consumer.
\*   defect   "none", "missing_field" (a sensor key is absent) or "nan"
\*   lib_ok   whether scikit-learn accepts non-finite input (it otherwise raises ValueError)
\*   is_anom  the answer of IsolationForest.predict for the current vector
\*   limit    the number of vectors a coach may send
consumer_on_message(coach, s, defect, lib_ok, is_anom, limit) ==
    /\ received[coach] < limit
    /\ IF defect = "missing_field"
       THEN \* extract_features raises KeyError before anything is touched
            /\ call' = [coach |-> coach, defect |-> defect, result |-> "KeyError",
                        fitted |-> FALSE, queried |-> FALSE, published |-> FALSE]
            /\ UNCHANGED << coach_windows, models, received, out >>
       ELSE LET fv == extract_features(s, defect)
                n == received[coach] + 1
                w == deque_append(coach_windows[coach], [n |-> n, finite |-> fv.finite])
                fit == models[coach] = 0 \/ Len(w) = WINDOW_SIZE
                fit_raises == fit /\ ~AllFinite(w) /\ ~lib_ok
                predict_raises == ~fv.finite /\ ~lib_ok
            IN  /\ received' = [received EXCEPT ![coach] = n]
                /\ coach_windows' = [coach_windows EXCEPT ![coach] = w]
                /\ IF Len(w) < warm_up
                   THEN /\ call' = [coach |-> coach, defect |-> defect,
                                    result |-> "Warming", fitted |-> FALSE,
                                    queried |-> FALSE, published |-> FALSE]
                        /\ UNCHANGED << models, out >>
                   ELSE IF fit_raises
                   THEN /\ call' = [coach |-> coach, defect |-> defect,
                                    result |-> "ValueError", fitted |-> FALSE,
                                    queried |-> FALSE, published |-> FALSE]
                        /\ UNCHANGED << models, out >>
                   ELSE IF predict_raises
                   THEN /\ call' = [coach |-> coach, defect |-> defect,
                                    result |-> "ValueError", fitted |-> fit,
                                    queried |-> TRUE, published |-> FALSE]
                        /\ models' = IF fit THEN [models EXCEPT ![coach] = n] ELSE models
                        /\ UNCHANGED out
                   ELSE /\ call' = [coach |-> coach, defect |-> defect,
                                    result |-> IF is_anom THEN "Anomalous" ELSE "Normal",
                                    fitted |-> fit, queried |-> TRUE, published |-> TRUE]
                        /\ models' = IF fit THEN [models EXCEPT ![coach] = n] ELSE models
                        /\ out' = Some(condition_record(coach, is_anom, fv))
    /\ UNCHANGED sample
    /\ UNCHANGED << priorityVars, managerVars, depotVars, plannerVars, engineVars >>

\* the sensor readings of the telemetry events
VibrationAxle1 == {0, 250, 500, 700}
SensorReadings ==
    [vibration_axle_1 : VibrationAxle1, vibration_axle_2 : {0},
     bearing_temp_1 : {500}, motor_temp : {550}, door_motor_current : {10}]

-----------------------------------------------------------------------------
(* depot_manager.py: the depot layout and the two path searches.            *)
(* A layout is [tracks, switches]: a track is [trackId, type, status,       *)
(* distance_metres] with distance_metres None when the key is absent, a     *)
(* switch is [switchId, connectsTracks].                                    *)

\* The track and switch names of the layouts, in the order Python compares
\* strings; heapq compares the names of tracks and of switches.
Names ==
    << "A", "B", "C", "D", "E", "IBL-01", "MAINLINE_IN", "S1", "S2", "S3", "S4",
       "SL-01", "SL-02", "SL-03", "SW-01", "SW-02", "SW-03", "WPL-01", "Z" >>

Rank(name) == CHOOSE i \in 1..Len(Names) : Names[i] = name

Range(s) == {s[i] : i \in 1..Len(s)}

RECURSIVE Repeat(_, _)
Repeat(s, n) == IF n = 0 THEN <<>> ELSE s \o Repeat(s, n - 1)

\* what the loops over one switch append to graph[track_id]: for every
\* occurrence of track_id in connectsTracks, one (switch, other) pair per
\* other track of the switch, the pair carrying the id of switch k
switch_edges_first_switch(switches, k, track_id) ==
    LET connections == switches[k].connectsTracks
        others == SelectSeq(connections, LAMBDA o : o # track_id)
        times == Cardinality({i \in 1..Len(connections) : connections[i] = track_id})
    IN  Repeat([i \in 1..Len(others) |->
                   [switch_id |-> switches[1].switchId, neighbor_track |-> others[i]]],
               times)

switch_edges(switches, k, track_id) ==
    LET connections == switches[k].connectsTracks
        others == SelectSeq(connections, LAMBDA o : o # track_id)
        times == Cardinality({i \in 1..Len(connections) : connections[i] = track_id})
    IN  Repeat([i \in 1..Len(others) |->
                   [switch_id |-> switches[k].switchId, neighbor_track |-> others[i]]],
               times)

\* graph[track_id] after the switches k.. have been added
RECURSIVE edges_from(_, _, _)
edges_from(switches, k, track_id) ==
    IF k > Len(switches) THEN <<>>
    ELSE switch_edges(switches, k, track_id) \o edges_from(switches, k + 1, track_id)

\* graph.get(track_id, []) of the graph both searches build
graph_get(depot, track_id) == edges_from(depot.switches, 1, track_id)

\* a graph that has a key for every track of the layout
graph_keys_all_tracks(depot) ==
    UNION {Range(depot.switches[k].connectsTracks) : k \in 1..Len(depot.switches)}
        \cup {depot.tracks[i].trackId : i \in 1..Len(depot.tracks)}

\* the keys of the graph: the tracks some switch connects
graph_keys(depot) ==
    UNION {Range(depot.switches[k].connectsTracks) : k \in 1..Len(depot.switches)}

\* track_map.get(track_id, {}).get("distance_metres", 1): track_map keeps the
\* last track of each id
traversal_cost(depot, track_id) ==
    LET hits == {i \in 1..Len(depot.tracks) : depot.tracks[i].trackId = track_id}
    IN  IF hits = {} THEN 1
        ELSE LET t == depot.tracks[CHOOSE i \in hits : \A j \in hits : j <= i]
             IN  IF t.distance_metres = None THEN 1 ELSE t.distance_metres[1]

\* deque.pop(): the newest element
pop_right(queue) ==
    [item |-> queue[Len(queue)], rest |-> SubSeq(queue, 1, Len(queue) - 1)]

\* deque.popleft(): the oldest element
popleft(queue) == [item |-> Head(queue), rest |-> Tail(queue)]

\* the for loop of find_path over the neighbours of the track just taken
\* from the queue: st is [queue, visited]
RECURSIVE enqueue_neighbors(_, _, _)
enqueue_neighbors(edges, path, st) ==
    IF edges = <<>> THEN st
    ELSE LET e == Head(edges)
         IN  IF e.neighbor_track \notin st.visited
             THEN enqueue_neighbors(Tail(edges), path,
                      [queue   |-> Append(st.queue,
                                     [track |-> e.neighbor_track,
                                      path  |-> path \o <<e.switch_id, e.neighbor_track>>]),
                       visited |-> st.visited \cup {e.neighbor_track}])
             ELSE enqueue_neighbors(Tail(edges), path, st)

\* the while loop of find_path
RECURSIVE bfs_loop(_, _, _)
bfs_loop(depot, end_track_id, st) ==
    IF st.queue = <<>> THEN None
    ELSE LET cur == popleft(st.queue)
         IN  IF cur.item.track = end_track_id THEN cur.item.path
             ELSE bfs_loop(depot, end_track_id,
                      enqueue_neighbors(graph_get(depot, cur.item.track), cur.item.path,
                                        [queue |-> cur.rest, visited |-> st.visited]))

\* find_path(depot_data, start_track_id, end_track_id): the path, or None
find_path(depot, start_track_id, end_track_id) ==
    IF start_track_id \notin graph_keys(depot) \/ end_track_id \notin graph_keys(depot)
    THEN None
    ELSE bfs_loop(depot, end_track_id,
                  [queue   |-> <<[track |-> start_track_id, path |-> <<start_track_id>>]>>,
                   visited |-> {start_track_id}])

\* list < list in Python, for two paths: the first differing name decides,
\* a proper prefix is the smaller
RECURSIVE path_less(_, _)
path_less(p, q) ==
    IF p = <<>> THEN q # <<>>
    ELSE IF q = <<>> THEN FALSE
    ELSE IF Head(p) = Head(q) THEN path_less(Tail(p), Tail(q))
    ELSE Rank(Head(p)) < Rank(Head(q))

\* tuple < tuple for two queue entries (total_cost, track, path)
entry_less(a, b) ==
    \/ a.total_cost < b.total_cost
    \/ /\ a.total_cost = b.total_cost
       /\ \/ Rank(a.track) < Rank(b.track)
          \/ a.track = b.track /\ path_less(a.path, b.path)

\* heapq.heappop: the smallest entry of the queue
heappop(priority_queue) ==
    LET item == CHOOSE a \in priority_queue :
                    \A b \in priority_queue \ {a} : entry_less(a, b)
    IN  [item |-> item, rest |-> priority_queue \ {item}]

\* a relaxation that takes only the first cost found for a track
improves_first_visit(new_cost, visited_costs, neighbor_track) ==
    neighbor_track \notin DOMAIN visited_costs

\* new_cost < visited_costs.get(neighbor_track, float('inf'))
improves(new_cost, visited_costs, neighbor_track) ==
    \/ neighbor_track \notin DOMAIN visited_costs
    \/ new_cost < visited_costs[neighbor_track]

\* visited_costs[track] = cost
set_cost(visited_costs, track, cost) ==
    [t \in DOMAIN visited_costs \cup {track} |->
        IF t = track THEN cost ELSE visited_costs[t]]

\* the for loop of find_efficient_path over the neighbours of the track just
\* popped; every hop out of that track costs `cost`: st is
\* [priority_queue, visited_costs]
RECURSIVE relax_neighbors(_, _, _, _, _)
relax_neighbors(edges, cost, total_cost, path, st) ==
    IF edges = <<>> THEN st
    ELSE LET e == Head(edges)
             new_cost == total_cost + cost
         IN  IF improves(new_cost, st.visited_costs, e.neighbor_track)
             THEN relax_neighbors(Tail(edges), cost, total_cost, path,
                      [priority_queue |-> st.priority_queue \cup
                           {[total_cost |-> new_cost, track |-> e.neighbor_track,
                             path |-> path \o <<e.switch_id, e.neighbor_track>>]},
                       visited_costs |-> set_cost(st.visited_costs, e.neighbor_track,
                                                  new_cost)])
             ELSE relax_neighbors(Tail(edges), cost, total_cost, path, st)

\* the while loop of find_efficient_path
RECURSIVE dijkstra_loop(_, _, _)
dijkstra_loop(depot, end_track_id, st) ==
    IF st.priority_queue = {} THEN None
    ELSE LET cur == heappop(st.priority_queue)
             rest == [priority_queue |-> cur.rest, visited_costs |-> st.visited_costs]
         IN  IF cur.item.total_cost > st.visited_costs[cur.item.track]
             THEN dijkstra_loop(depot, end_track_id, rest)
             ELSE IF cur.item.track = end_track_id
             THEN Some([path |-> cur.item.path,
                        total_cost_metres |-> cur.item.total_cost])
             ELSE dijkstra_loop(depot, end_track_id,
                      relax_neighbors(graph_get(depot, cur.item.track),
                                      traversal_cost(depot, cur.item.track),
                                      cur.item.total_cost, cur.item.path, rest))

\* find_efficient_path(depot_data, start_track_id, end_track_id): the path
\* with its total cost, or None
find_efficient_path(depot, start_track_id, end_track_id) ==
    IF start_track_id \notin graph_keys(depot) \/ end_track_id \notin graph_keys(depot)
    THEN None
    ELSE dijkstra_loop(depot, end_track_id,
             [priority_queue |-> {[total_cost |-> 0, track |-> start_track_id,
                                   path |-> <<start_track_id>>]},
              visited_costs |-> [t \in {start_track_id} |-> 0]])

\* routes.py get_efficient_path_endpoint asks find_efficient_path for start
\* and end on the layout just loaded; find_path is asked the same question.
get_path(start, end) ==
    /\ path_query' = Some([start |-> start, end |-> end])
    /\ hops_path' = find_path(depot_data, start, end)
    /\ cost_path' = find_efficient_path(depot_data, start, end)
    /\ UNCHANGED << depot_data, stabling_data, storeVars >>
    /\ UNCHANGED << priorityVars, managerVars, consumerVars, plannerVars, engineVars >>

\* The layouts the searches are asked about: up to MaxSwitches switches
\* S1, S2, ..., each connecting one of these lists of tracks, over one of
\* three track lists.
Connections ==
    { <<"A", "B">>, <<"B", "C">>, <<"C", "D">>, <<"B", "D">>,
      <<"A", "B", "C">>, <<"C", "E">>, <<"E", "D", "B">> }

SwitchNames == << "S1", "S2", "S3", "S4" >>

Track(id, type, distance) ==
    [trackId |-> id, type |-> type, status |-> "OPERATIONAL", distance_metres |-> distance]

TrackLists ==
    { << Track("A", "Stabling", Some(100)), Track("B", "Stabling", Some(50)),
         Track("C", "Stabling", Some(80)), Track("D", "Stabling", Some(30)),
         Track("E", "Stabling", Some(10)), Track("Z", "Stabling", Some(20)) >>,
      << Track("A", "Stabling", Some(100)), Track("B", "Stabling", Some(80)),
         Track("C", "Stabling", Some(50)), Track("D", "Stabling", Some(0)),
         Track("E", "Stabling", None) >>,
      << >> }

Layouts ==
    { [tracks   |-> t,
       switches |-> [k \in 1..Len(c) |->
                        [switchId |-> SwitchNames[k], connectsTracks |-> c[k]]]] :
      t \in TrackLists,
      c \in UNION {[1..n -> Connections] : n \in 0..MaxSwitches} }

QueryStarts == {"A", "Z"}
QueryEnds == {"A", "C", "D", "Z"}

-----------------------------------------------------------------------------
(* enhanced_data_generator.py: generate_advanced_stabling_geometry.         *)
(* A row keeps the columns computed from the path and from tomorrow's       *)
(* status; the columns copied from the track (type, capacity, connected     *)
(* switches) and the note are left out.                                     *)

\* sub in s, for the substrings the generator looks for in the names and
\* types of the layouts
Contains(s, sub) ==
    CASE sub = "SW-" -> s \in {"SW-01", "SW-02", "SW-03"}
      [] sub = "Stabling" -> s \in {"Stabling"}
      [] sub = "IBL" -> s \in {"IBL-01"}
      [] sub = "WPL" -> s \in {"WPL-01"}
      [] OTHER -> FALSE

\* FLEET_IDS[i - 1]: CR101, CR102, ..., as the number of the coach
FLEET_IDS(i) == 100 + i

TomorrowStatuses == {"Service", "Maintenance", "Standby", "Cleaning"}

\* [t for t in tracks if t['status'] in ['OPERATIONAL']]
available_tracks(depot) == SelectSeq(depot.tracks, LAMBDA t : t.status = "OPERATIONAL")

\* [t for t in available_tracks if 'Stabling' in t['type']]
stabling_tracks(depot) ==
    SelectSeq(available_tracks(depot), LAMBDA t : Contains(t.type, "Stabling"))

\* the tracks that suit tomorrow's status
optimal_tracks(depot, tomorrow_status) ==
    CASE tomorrow_status = "Service" ->
             SelectSeq(available_tracks(depot), LAMBDA t : t.trackId = "MAINLINE_IN")
      [] tomorrow_status = "Maintenance" ->
             SelectSeq(available_tracks(depot),
                       LAMBDA t : Contains(t.trackId, "IBL") \/ Contains(t.trackId, "WB"))
      [] tomorrow_status = "Cleaning" ->
             SelectSeq(available_tracks(depot), LAMBDA t : Contains(t.trackId, "WPL"))
      [] OTHER -> stabling_tracks(depot)

\* needs_reallocation = len(optimal_tracks) > 0 and track not in optimal_tracks
needs_reallocation(depot, track, tomorrow_status) ==
    /\ Len(optimal_tracks(depot, tomorrow_status)) > 0
    /\ track \notin Range(optimal_tracks(depot, tomorrow_status))

\* the row of a train that was given a stabling track
stabling_row(depot, train_id, track, tomorrow_status) ==
    LET path_result == find_efficient_path(depot, track.trackId, "MAINLINE_IN")
        found == path_result # None
        path_distance == IF found THEN path_result[1].total_cost_metres ELSE 500
        path_switches ==
            IF found
            THEN Len(SelectSeq(path_result[1].path, LAMBDA x : Contains(x, "SW-")))
            ELSE 0
        shunting_time ==
            IF found THEN Max(5, path_switches * 3 + (path_distance \div 50)) ELSE 30
        energy_cost == IF found THEN path_distance * 2 + path_switches * 50 ELSE 1000
        realloc == needs_reallocation(depot, track, tomorrow_status)
    IN  [Train_ID               |-> train_id,
         Current_Track_ID       |-> track.trackId,
         Distance_To_Mainline_M |-> path_distance,
         Path_To_Mainline       |-> IF found THEN path_result[1].path ELSE <<"No path">>,
         Switches_Required      |-> path_switches,
         Shunting_Time_Minutes  |-> shunting_time,
         Energy_Cost_INR        |-> energy_cost,
         Tomorrow_Status        |-> tomorrow_status,
         Needs_Reallocation     |-> realloc,
         Reallocation_Priority  |-> IF energy_cost > 800 THEN "High"
                                    ELSE IF realloc THEN "Medium" ELSE "Low",
         Track_Status           |-> track.status,
         Accessibility_Score    |-> 5 - Min(4, path_switches)]

\* the row of a train for which no stabling track is left
overflow_row(train_id) ==
    [Train_ID               |-> train_id,
     Current_Track_ID       |-> "OVERFLOW",
     Distance_To_Mainline_M |-> 1000,
     Path_To_Mainline       |-> <<"Requires special handling">>,
     Switches_Required      |-> 5,
     Shunting_Time_Minutes  |-> 45,
     Energy_Cost_INR        |-> 2000,
     Tomorrow_Status        |-> "Standby",
     Needs_Reallocation     |-> TRUE,
     Reallocation_Priority  |-> "Critical",
     Track_Status           |-> "OVERFLOW",
     Accessibility_Score    |-> 1]

\* what random.sample(stabling_tracks, n) can return: n places of the list,
\* no place twice
Samples(n, len) ==
    {s \in [1..n -> 1..len] : \A i, j \in 1..n : s[i] = s[j] => i = j}

\* generate_advanced_stabling_geometry(), for the first NumTrains trains of
\* the fleet: `drawn` is the draw of random.sample, tomorrow[i] the draw of
\* random.choice for train i
generate_advanced_stabling_geometry(drawn, tomorrow) ==
    LET tracks == stabling_tracks(depot_data)
        assigned_tracks == [i \in 1..Len(drawn) |-> tracks[drawn[i]]]
    IN  /\ stabling_data' = Some(
               [i \in 1..NumTrains |->
                   IF i <= Len(assigned_tracks)
                   THEN stabling_row(depot_data, FLEET_IDS(i), assigned_tracks[i], tomorrow[i])
                   ELSE overflow_row(FLEET_IDS(i))])
        /\ UNCHANGED << depot_data, path_query, hops_path, cost_path, storeVars >>
        /\ UNCHANGED << priorityVars, managerVars, consumerVars, plannerVars, engineVars >>

\* The yards the stabling table is generated for: three stabling tracks, an
\* inspection line, a washing line and the mainline entry, each of SL-02,
\* SL-03 and MAINLINE_IN in or out of operation, and any of three switches.
YardSwitches ==
    << [switchId |-> "SW-01", connectsTracks |-> <<"SL-01", "MAINLINE_IN">>],
       [switchId |-> "SW-02", connectsTracks |-> <<"SL-01", "SL-02">>],
       [switchId |-> "SW-03", connectsTracks |-> <<"SL-03", "IBL-01">>] >>

TrackStatuses == {"OPERATIONAL", "MAINTENANCE"}

YardLayouts ==
    { [tracks |->
          << [trackId |-> "SL-01", type |-> "Stabling", status |-> "OPERATIONAL",
              distance_metres |-> Some(120)],
             [trackId |-> "SL-02", type |-> "Stabling", status |-> s2,
              distance_metres |-> Some(150)],
             [trackId |-> "SL-03", type |-> "Stabling", status |-> s3,
              distance_metres |-> Some(90)],
             [trackId |-> "IBL-01", type |-> "Inspection", status |-> "OPERATIONAL",
              distance_metres |-> Some(200)],
             [trackId |-> "WPL-01", type |-> "Washing", status |-> "OPERATIONAL",
              distance_metres |-> None],
             [trackId |-> "MAINLINE_IN", type |-> "Mainline", status |-> sm,
              distance_metres |-> Some(50)] >>,
       switches |-> SelectSeq(YardSwitches, LAMBDA sw : sw.switchId \in present)] :
      s2 \in TrackStatuses, s3 \in TrackStatuses, sm \in TrackStatuses,
      present \in SUBSET {"SW-01", "SW-02", "SW-03"} }

-----------------------------------------------------------------------------
(* depot_manager.py and routes.py: the layout file and the calls on it.     *)
(* The file is [data, size]: data is the layout the text of the file        *)
(* decodes to, None when json.load raises JSONDecodeError on it; size is    *)
(* the length of the text, counted in the characters of the statuses, the   *)
(* only part of the text the calls change.  The text of a layout fits the   *)
(* write buffer, so that json.dump reaches the file in one piece when the   *)
(* file is closed.                                                          *)

\* the layout in the file when the service starts
StoreLayout ==
    [tracks   |-> << Track("A", "Stabling", Some(100)), Track("B", "Stabling", Some(50)),
                     Track("C", "Stabling", Some(80)) >>,
     switches |-> << [switchId |-> "S1", connectsTracks |-> <<"A", "B">>],
                     [switchId |-> "S2", connectsTracks |-> <<"B", "C">>] >>]

\* len(status)
StatusLen(status) ==
    CASE status = "CLOSED" -> 6
      [] OTHER -> 11

RECURSIVE StatusesLen(_)
StatusesLen(tracks) ==
    IF tracks = <<>> THEN 0 ELSE StatusLen(Head(tracks).status) + StatusesLen(Tail(tracks))

\* the length of json.dumps(depot_data, indent=2), less what all layouts share
FileSize(depot) == StatusesLen(depot.tracks)

\* load_depot(): the decoded layout, None for {"error": ...}
load_depot == depot_file.data

\* open(DEPOT_FILE_PATH, 'w'): the file is truncated
open_w == [data |-> None, size |-> 0]

\* json.dump(depot_data, f) and close: the text is written from offset 0 over
\* what the file holds by then; a longer text left by another writer keeps its
\* tail, and the file no longer decodes
write(depot) ==
    [data |-> IF FileSize(depot) >= depot_file.size THEN Some(depot) ELSE None,
     size |-> Max(depot_file.size, FileSize(depot))]

\* the loop of update_track_status: the first track with the id gets the status
track_found(depot, track_id) ==
    \E i \in 1..Len(depot.tracks) : depot.tracks[i].trackId = track_id

set_status(depot, track_id, new_status) ==
    LET first == CHOOSE i \in 1..Len(depot.tracks) :
                     /\ depot.tracks[i].trackId = track_id
                     /\ \A j \in 1..(i - 1) : depot.tracks[j].trackId # track_id
    IN  [depot EXCEPT !.tracks[first].status = new_status]

\* a call that has not begun
IdleCall ==
    [op |-> "none", pc |-> "idle", track_id |-> "", new_status |-> "",
     start |-> "", end |-> "", depot_data |-> None, result |-> "none",
     hops_path |-> None, cost_path |-> None]

\* update_track_status(track_id, new_status) up to the call of save_depot:
\* the layout is loaded and the track looked for
update_track_status(i, track_id, new_status) ==
    /\ calls[i].pc = "idle"
    /\ LET loaded == load_depot
           begun == [IdleCall EXCEPT !.op = "update", !.track_id = track_id,
                                     !.new_status = new_status]
       IN  calls' = [calls EXCEPT ![i] =
               IF loaded = None
               THEN [begun EXCEPT !.pc = "done", !.result = "error"]
               ELSE IF ~track_found(loaded[1], track_id)
               THEN [begun EXCEPT !.pc = "done", !.result = "error", !.depot_data = loaded]
               ELSE [begun EXCEPT !.pc = "save",
                                  !.depot_data = Some(set_status(loaded[1], track_id,
                                                                 new_status))]]
    /\ UNCHANGED << depot_file, history >>
    /\ UNCHANGED << depot_data, path_query, hops_path, cost_path, stabling_data >>
    /\ UNCHANGED << priorityVars, managerVars, consumerVars, plannerVars, engineVars >>

\* save_depot: open(DEPOT_FILE_PATH, 'w')
save_depot_open(i) ==
    /\ calls[i].pc = "save"
    /\ depot_file' = open_w
    /\ calls' = [calls EXCEPT ![i].pc = "dump"]
    /\ UNCHANGED history
    /\ UNCHANGED << depot_data, path_query, hops_path, cost_path, stabling_data >>
    /\ UNCHANGED << priorityVars, managerVars, consumerVars, plannerVars, engineVars >>

\* save_depot: json.dump and the end of the with block; update_track_status
\* then returns success
save_depot_close(i) ==
    /\ calls[i].pc = "dump"
    /\ depot_file' = write(calls[i].depot_data[1])
    /\ calls' = [calls EXCEPT ![i].pc = "done", ![i].result = "success"]
    /\ history' =
           [committed |-> IF depot_file'.data # None THEN depot_file'.data[1]
                          ELSE history.committed,
            confirmed |-> [history.confirmed EXCEPT
                              ![calls[i].track_id] = Some(calls[i].new_status)]]
    /\ UNCHANGED << depot_data, path_query, hops_path, cost_path, stabling_data >>
    /\ UNCHANGED << priorityVars, managerVars, consumerVars, plannerVars, engineVars >>

\* routes.py get_muttom_depot: the layout is loaded and returned
get_muttom_depot(i) ==
    /\ calls[i].pc = "idle"
    /\ calls' = [calls EXCEPT ![i] =
           [IdleCall EXCEPT !.op = "load", !.pc = "done", !.depot_data = load_depot,
                            !.result = IF load_depot = None THEN "error" ELSE "ok"]]
    /\ UNCHANGED << depot_file, history >>
    /\ UNCHANGED << depot_data, path_query, hops_path, cost_path, stabling_data >>
    /\ UNCHANGED << priorityVars, managerVars, consumerVars, plannerVars, engineVars >>

\* routes.py get_efficient_path_endpoint: the layout is loaded and
\* find_efficient_path asked for start and end; find_path is asked the same
\* question of the same layout
get_efficient_path_endpoint(i, start, end) ==
    /\ calls[i].pc = "idle"
    /\ LET loaded == load_depot
           begun == [IdleCall EXCEPT !.op = "path", !.pc = "done", !.start = start,
                                     !.end = end, !.depot_data = loaded]
       IN  calls' = [calls EXCEPT ![i] =
               IF loaded = None
               THEN [begun EXCEPT !.result = "error"]
               ELSE [begun EXCEPT
                        !.hops_path = find_path(loaded[1], start, end),
                        !.cost_path = find_efficient_path(loaded[1], start, end),
                        !.result = IF find_efficient_path(loaded[1], start, end) # None
                                   THEN "ok" ELSE "not_found"]]
    /\ UNCHANGED << depot_file, history >>
    /\ UNCHANGED << depot_data, path_query, hops_path, cost_path, stabling_data >>
    /\ UNCHANGED << priorityVars, managerVars, consumerVars, plannerVars, engineVars >>

\* the track ids and the statuses of the update requests ("Q" is no track of
\* the layout), and the ends of the path requests
UpdateTracks == {"A", "B", "Q"}
NewStatuses == {"CLOSED", "MAINTENANCE"}
PathEnds == {"B", "C"}

-----------------------------------------------------------------------------
(* optimization_engine.py: the induction planner and the stabling planner.  *)
(* A Train is [id, mileage, is_branded, needs_cleaning, failure_probability *)
(* (in hundredths), health_status, decision, stabling_track]; the reason    *)
(* text is left out.  The planning run goes initialize_fleet,               *)
(* run_predictive_maintenance, run_induction_planner, run_stabling_planner. *)

SERVICE_REQUIREMENT == 18

\* Train(train_id, mileage) as initialize_fleet leaves it
Train(train_id, mileage, is_branded, needs_cleaning) ==
    [id                  |-> train_id,
     mileage             |-> mileage,
     is_branded          |-> is_branded,
     needs_cleaning      |-> needs_cleaning,
     failure_probability |-> 0,
     health_status       |-> "Healthy",
     decision            |-> "Standby",
     stabling_track      |-> "Not Assigned"]

\* run_predictive_maintenance: probabilities[i] is what the model predicts
\* for the i-th train; above 0.6 the train is At Risk
run_predictive_maintenance(probabilities) ==
    /\ stage = "initialized"
    /\ fleet' = [i \in 1..Len(fleet) |->
                    [fleet[i] EXCEPT
                        !.failure_probability = probabilities[i],
                        !.health_status = IF probabilities[i] > 60 THEN "At Risk" ELSE @]]
    /\ stage' = "scored"
    /\ UNCHANGED depot_layout
    /\ UNCHANGED << priorityVars, managerVars, consumerVars, depotVars, engineVars >>

\* "Run" in decision
contains_Run(decision) == decision \in {"Run (Branding)", "Run (Mileage Balance)"}

\* Rule 1: At Risk trains need maintenance
rule1(f) ==
    [i \in 1..Len(f) |->
        IF f[i].health_status = "At Risk"
        THEN [f[i] EXCEPT !.decision = "Needs Maintenance"]
        ELSE f[i]]

\* a rule 2 that lets every branded train run
rule2_every_branded(f) ==
    [i \in 1..Len(f) |->
        IF f[i].is_branded
        THEN [f[i] EXCEPT !.decision = "Run (Branding)"]
        ELSE f[i]]

\* Rule 2: branded trains run unless they need maintenance
rule2(f) ==
    [i \in 1..Len(f) |->
        IF f[i].is_branded /\ f[i].decision # "Needs Maintenance"
        THEN [f[i] EXCEPT !.decision = "Run (Branding)"]
        ELSE f[i]]

\* a sort key that looks at the mileage only
eligible_key_le_mileage_only(a, b) == a.mileage <= b.mileage

\* (failure_probability, mileage) of a <= that of b
eligible_key_le(a, b) ==
    \/ a.failure_probability < b.failure_probability
    \/ /\ a.failure_probability = b.failure_probability
       /\ a.mileage <= b.mileage

\* list.sort(key=lambda x: (x.failure_probability, x.mileage)): stable
eligible_insert(s, e) ==
    LET n == Cardinality({i \in 1..Len(s) : eligible_key_le(s[i], e)})
    IN  SubSeq(s, 1, n) \o <<e>> \o SubSeq(s, n + 1, Len(s))

RECURSIVE eligible_sorted_from(_, _)
eligible_sorted_from(s, acc) ==
    IF s = <<>> THEN acc
    ELSE eligible_sorted_from(Tail(s), eligible_insert(acc, Head(s)))

\* the Standby trains, healthiest and lowest mileage first
eligible_trains(f) ==
    eligible_sorted_from(SelectSeq(f, LAMBDA t : t.decision = "Standby"), <<>>)

\* slots_to_fill = SERVICE_REQUIREMENT - slots_filled
slots_to_fill(f) ==
    SERVICE_REQUIREMENT - Len(SelectSeq(f, LAMBDA t : contains_Run(t.decision)))

\* for i in range(min(slots_to_fill, len(eligible_trains))): the trains
\* eligible_trains[i] run; range() of a negative number is empty
fill_slots(f, eligible, slots) ==
    [i \in 1..Len(f) |->
        IF \E k \in 1..Min(slots, Len(eligible)) : eligible[k].id = f[i].id
        THEN [f[i] EXCEPT !.decision = "Run (Mileage Balance)"]
        ELSE f[i]]

\* Rule 3: the remaining service slots go to the healthiest, lowest-mileage
\* Standby trains
rule3(f) == fill_slots(f, eligible_trains(f), slots_to_fill(f))

\* run_induction_planner(fleet)
run_induction_planner ==
    /\ stage = "scored"
    /\ fleet' = rule3(rule2(rule1(fleet)))
    /\ stage' = "planned"
    /\ UNCHANGED depot_layout
    /\ UNCHANGED << priorityVars, managerVars, consumerVars, depotVars, engineVars >>

\* run_predictive_maintenance called again on the planned fleet, with what
\* the model predicts now
second_predictive_maintenance(probabilities) ==
    /\ stage = "planned"
    /\ fleet' = [i \in 1..Len(fleet) |->
                    [fleet[i] EXCEPT
                        !.failure_probability = probabilities[i],
                        !.health_status = IF probabilities[i] > 60 THEN "At Risk" ELSE @]]
    /\ stage' = "rescored"
    /\ UNCHANGED depot_layout
    /\ UNCHANGED << priorityVars, managerVars, consumerVars, depotVars, engineVars >>

\* run_induction_planner(fleet) called again on the same fleet
second_induction_planner ==
    /\ stage = "rescored"
    /\ fleet' = rule3(rule2(rule1(fleet)))
    /\ stage' = "replanned"
    /\ UNCHANGED depot_layout
    /\ UNCHANGED << priorityVars, managerVars, consumerVars, depotVars, engineVars >>

\* the key of the parking order: (decision != "Needs Maintenance",
\* needs_cleaning, "Run" not in decision, mileage), False before True
stabling_key(t) ==
    << IF t.decision # "Needs Maintenance" THEN 1 ELSE 0,
       IF t.needs_cleaning THEN 1 ELSE 0,
       IF ~contains_Run(t.decision) THEN 1 ELSE 0,
       t.mileage >>

\* tuple <= tuple for two keys
stabling_key_le(a, b) ==
    \/ a = b
    \/ \E i \in 1..4 : a[i] < b[i] /\ \A j \in 1..(i - 1) : a[j] = b[j]

\* sorted(fleet.values(), key=...): stable
stabling_insert(s, e) ==
    LET n == Cardinality({i \in 1..Len(s) :
                             stabling_key_le(stabling_key(s[i]), stabling_key(e))})
    IN  SubSeq(s, 1, n) \o <<e>> \o SubSeq(s, n + 1, Len(s))

RECURSIVE stabling_sorted_from(_, _)
stabling_sorted_from(s, acc) ==
    IF s = <<>> THEN acc
    ELSE stabling_sorted_from(Tail(s), stabling_insert(acc, Head(s)))

trains_sorted(f) == stabling_sorted_from(f, <<>>)

\* a parking step in which a train to be cleaned waits for a cleaning bay
park_no_fallback(train, pools) ==
    IF train.decision = "Needs Maintenance"
    THEN IF pools.maintenance # <<>>
         THEN [track |-> Head(pools.maintenance),
               pools |-> [pools EXCEPT !.maintenance = Tail(@)]]
         ELSE [track |-> "OVERFLOW", pools |-> pools]
    ELSE IF train.needs_cleaning
    THEN IF pools.cleaning # <<>>
         THEN [track |-> Head(pools.cleaning),
               pools |-> [pools EXCEPT !.cleaning = Tail(@)]]
         ELSE [track |-> "OVERFLOW", pools |-> pools]
    ELSE IF contains_Run(train.decision)
    THEN IF pools.standard # <<>>
         THEN [track |-> Head(pools.standard),
               pools |-> [pools EXCEPT !.standard = Tail(@)]]
         ELSE [track |-> "OVERFLOW", pools |-> pools]
    ELSE IF pools.standard # <<>>
         THEN [track |-> pools.standard[Len(pools.standard)],
               pools |-> [pools EXCEPT !.standard = SubSeq(@, 1, Len(@) - 1)]]
         ELSE [track |-> "OVERFLOW", pools |-> pools]

\* one turn of the loop of run_stabling_planner: the track the train gets
\* and the pools left
park(train, pools) ==
    IF train.decision = "Needs Maintenance"
    THEN IF pools.maintenance # <<>>
         THEN [track |-> Head(pools.maintenance),
               pools |-> [pools EXCEPT !.maintenance = Tail(@)]]
         ELSE [track |-> "OVERFLOW", pools |-> pools]
    ELSE IF train.needs_cleaning
    THEN IF pools.cleaning # <<>>
         THEN [track |-> Head(pools.cleaning),
               pools |-> [pools EXCEPT !.cleaning = Tail(@)]]
         ELSE IF pools.standard # <<>>
         THEN [track |-> Head(pools.standard),
               pools |-> [pools EXCEPT !.standard = Tail(@)]]
         ELSE [track |-> "OVERFLOW", pools |-> pools]
    ELSE IF contains_Run(train.decision)
    THEN IF pools.standard # <<>>
         THEN [track |-> Head(pools.standard),
               pools |-> [pools EXCEPT !.standard = Tail(@)]]
         ELSE [track |-> "OVERFLOW", pools |-> pools]
    ELSE IF pools.standard # <<>>
         THEN [track |-> pools.standard[Len(pools.standard)],
               pools |-> [pools EXCEPT !.standard = SubSeq(@, 1, Len(@) - 1)]]
         ELSE [track |-> "OVERFLOW", pools |-> pools]

\* the loop of run_stabling_planner over the sorted trains: the trains, each
\* with its track
RECURSIVE park_all(_, _)
park_all(trains, pools) ==
    IF trains = <<>> THEN <<>>
    ELSE CHOOSE parked \in
             { <<[Head(trains) EXCEPT !.stabling_track = p.track]>>
                   \o park_all(Tail(trains), p.pools) :
               p \in {park(Head(trains), pools)} } : TRUE

\* run_stabling_planner(fleet, depot_layout): the trains are parked in the
\* sorted order, the fleet keeps its own order
run_stabling_planner(layout) ==
    /\ stage = "planned"
    /\ depot_layout' = Some(layout)
    /\ \E parked \in {park_all(trains_sorted(fleet),
                                [maintenance |-> layout.maintenance,
                                 cleaning    |-> layout.cleaning,
                                 standard    |-> layout.standard])} :
           fleet' = [i \in 1..Len(fleet) |->
                        parked[CHOOSE j \in 1..Len(parked) : parked[j].id = fleet[i].id]]
    /\ stage' = "stabled"
    /\ UNCHANGED << priorityVars, managerVars, consumerVars, depotVars, engineVars >>

\* The fleets of the planning runs: up to MaxFree trains of any branding and
\* cleaning need, with mileages 2000, 500, 1400, ..., followed by a block of
\* BulkSizes trains that are all branded or all unbranded, with mileages
\* 1490, 1480, ...
BulkSizes == {0, 17, 19}
FreeMileages == << 2000, 500, 1400, 1400 >>

FreeTrains ==
    UNION {[1..n -> [is_branded : BOOLEAN, needs_cleaning : BOOLEAN]] : n \in 0..MaxFree}

Fleets ==
    { [i \in 1..(Len(free) + k) |->
          IF i <= Len(free)
          THEN Train(i, FreeMileages[i], free[i].is_branded, free[i].needs_cleaning)
          ELSE Train(100 + (i - Len(free)), 1500 - 10 * (i - Len(free)), branded, FALSE)] :
      free \in FreeTrains, k \in BulkSizes, branded \in BOOLEAN }

\* what the model predicts: 0.10 or 0.61 for each of the first trains; for
\* the block either 0.10 throughout, or 0.70 for its first train, 0.60 for its
\* second and 0.10 or 0.20 for the others
FreeProbabilities == {10, 61}
BulkPatterns == {"flat", "mixed"}

BulkProbability(pattern, j) ==
    IF pattern = "flat" THEN 10
    ELSE IF j = 1 THEN 70
    ELSE IF j = 2 THEN 60
    ELSE IF j % 2 = 0 THEN 10 ELSE 20

\* the bay pools: M-1.., C-1.., S-1..
MaintenanceBay == << "M-1", "M-2", "M-3", "M-4" >>
CleaningBay == << "C-1", "C-2" >>
StandardStabling ==
    << "S-1", "S-2", "S-3", "S-4", "S-5", "S-6", "S-7", "S-8", "S-9", "S-10", "S-11",
       "S-12", "S-13", "S-14", "S-15", "S-16", "S-17", "S-18", "S-19", "S-20", "S-21" >>

BaySizes == {0, 1}
StandardSizes == {0, 1, 20}

DepotLayouts ==
    { [maintenance |-> SubSeq(MaintenanceBay, 1, m),
       cleaning    |-> SubSeq(CleaningBay, 1, c),
       standard    |-> SubSeq(StandardStabling, 1, s)] :
      m \in BaySizes, c \in BaySizes, s \in StandardSizes }

-----------------------------------------------------------------------------
(* intelligent_optimization_engine_fallback.py and                          *)
(* intelligent_optimization_engine_simple.py: features, predictions and     *)
(* business rules of one train. A failure risk is in ten-thousandths, a     *)
(* priority score in hundredths of a point, a usage in whole percent, and   *)
(* Certificate_Compliance is the exact fraction num/den. The features that  *)
(* only feed the pickled models are left out, the answers of the models are *)
(* inputs, and the confidence, which only appears in the reasoning text, is *)
(* not kept.                                                                *)

\* valid / max(1, total)
compliance(valid, total) == [num |-> valid, den |-> Max(1, total)]

\* compliance > tenths / 10 and compliance < tenths / 10
compliance_gt(c, tenths) == 10 * c.num > tenths * c.den
compliance_lt(c, tenths) == 10 * c.num < tenths * c.den

\* (1 - compliance) * 30
cert_points(c) == (3000 * (c.den - c.num)) \div c.den

\* priority_score of apply_business_rules, the same in both engines
engine_priority_score(features, failure_risk) ==
    Min(10000, (failure_risk * 40) \div 100
               + cert_points(features.Certificate_Compliance)
               + Min(features.Open_Jobs, 5) * 600)

\* fallback engine: prepare_ml_features
prepare_ml_features(certs, open_jobs, usage) ==
    [Expired_Certificates   |-> certs.expired,
     Valid_Certificates     |-> certs.valid,
     Certificate_Compliance |-> compliance(certs.valid,
                                    certs.valid + certs.expired + certs.pending),
     Open_Jobs              |-> open_jobs,
     Average_Usage_Pct      |-> usage]

\* fallback engine: predict_failure_risk; answer is the model's probability,
\* None when the prediction raised
fallback_predict_failure_risk(features, answer) ==
    IF answer # None THEN answer[1]
    ELSE Min(10000, features.Average_Usage_Pct * 50
                    + features.Expired_Certificates * 2000
                    + features.Open_Jobs * 1000)

\* fallback engine: predict_optimal_decision; answer is the model's decision,
\* None when the prediction raised
fallback_predict_optimal_decision(features, answer) ==
    IF answer # None THEN answer[1]
    ELSE IF features.Expired_Certificates > 0 THEN "Maintenance"
    ELSE IF features.Average_Usage_Pct > 80 THEN "Maintenance"
    ELSE IF features.Open_Jobs > 2 THEN "Maintenance"
    ELSE IF compliance_lt(features.Certificate_Compliance, 8) THEN "Standby"
    ELSE "Service"

\* fallback engine: the predictions main makes when no model was loaded
fallback_rule_failure_risk(features) ==
    Min(10000, features.Average_Usage_Pct * 100 + features.Expired_Certificates * 2000)

fallback_rule_decision(features, failure_risk) ==
    IF failure_risk > 6000 THEN "Maintenance"
    ELSE IF compliance_gt(features.Certificate_Compliance, 8) THEN "Service"
    ELSE "Standby"

\* fallback engine: apply_business_rules
fallback_apply_business_rules(features, ml_decision, failure_risk) ==
    LET applies1 == failure_risk > 7000
        applies2 == features.Expired_Certificates > 0
        applies3 == features.Average_Usage_Pct > 90
        applies4 == /\ failure_risk < 3000
                 /\ compliance_gt(features.Certificate_Compliance, 9)
                 /\ features.Open_Jobs = 0
        d1 == IF applies1 /\ ml_decision # "Maintenance" THEN "Maintenance" ELSE ml_decision
        d2 == IF applies2 /\ ml_decision = "Service" THEN "Maintenance" ELSE d1
        d3 == IF applies3 /\ ml_decision # "Maintenance" THEN "Maintenance" ELSE d2
        d4 == IF applies4 /\ ml_decision = "Standby" THEN "Service" ELSE d3
        reasoning ==
            (IF applies1
             THEN IF ml_decision # "Maintenance"
                  THEN << "OVERRIDE: High failure risk - forced maintenance" >>
                  ELSE << "ML decision confirmed: High failure risk" >>
             ELSE << >>)
            \o (IF applies2
                THEN IF ml_decision = "Service"
                     THEN << "OVERRIDE: Expired certificates - cannot enter service" >>
                     ELSE << "Certificate compliance issue confirmed" >>
                ELSE << >>)
            \o (IF applies3 /\ ml_decision # "Maintenance"
                THEN << "OVERRIDE: Critical component wear" >>
                ELSE << >>)
            \o (IF applies4 /\ ml_decision = "Standby"
                THEN << "OVERRIDE: Excellent condition - prioritize for service" >>
                ELSE << >>)
    IN  [final_decision |-> d4,
         reasoning      |-> IF reasoning = << >> THEN << "ML decision accepted" >>
                            ELSE reasoning,
         priority_score |-> engine_priority_score(features, failure_risk)]

\* simple engine: prepare_train_features
prepare_train_features(certs, open_jobs, critical_jobs, usage) ==
    [Total_Certificates     |-> certs.valid + certs.expired + certs.pending,
     Expired_Certificates   |-> certs.expired,
     Valid_Certificates     |-> certs.valid,
     Pending_Certificates   |-> certs.pending,
     Certificate_Compliance |-> compliance(certs.valid,
                                    certs.valid + certs.expired + certs.pending),
     Open_Jobs              |-> open_jobs,
     Critical_Jobs          |-> critical_jobs,
     Average_Usage_Pct      |-> usage]

\* simple engine: calculate_failure_risk
calculate_failure_risk(features) ==
    LET usage_risk == IF features.Average_Usage_Pct > 90 THEN 40
                      ELSE IF features.Average_Usage_Pct > 80 THEN 30
                      ELSE IF features.Average_Usage_Pct > 70 THEN 20
                      ELSE IF features.Average_Usage_Pct > 50 THEN 10
                      ELSE 0
        job_risk == Min(features.Open_Jobs * 5, 20)
        critical_risk == features.Critical_Jobs * 10
    IN  Min(10000, cert_points(features.Certificate_Compliance)
                   + 100 * (usage_risk + job_risk + critical_risk))

\* simple engine: predict_optimal_decision
simple_predict_optimal_decision(features, failure_risk) ==
    IF features.Expired_Certificates > 0 THEN "Maintenance"
    ELSE IF failure_risk > 8000 THEN "Maintenance"
    ELSE IF features.Critical_Jobs > 0 THEN "Maintenance"
    ELSE IF features.Average_Usage_Pct > 90 THEN "Maintenance"
    ELSE IF /\ failure_risk < 3000
            /\ compliance_gt(features.Certificate_Compliance, 9)
            /\ features.Open_Jobs = 0
            /\ features.Average_Usage_Pct < 70 THEN "Service"
    ELSE IF /\ failure_risk < 5000
            /\ compliance_gt(features.Certificate_Compliance, 8)
            /\ features.Open_Jobs <= 1 THEN "Service"
    ELSE IF failure_risk > 6000 \/ compliance_lt(features.Certificate_Compliance, 7)
         THEN "Standby"
    ELSE "Service"

\* simple engine: apply_business_rules
simple_apply_business_rules(features, ml_decision, failure_risk) ==
    LET applies1 == features.Expired_Certificates > 0
        applies2 == failure_risk > 7000
        applies3 == features.Critical_Jobs > 0
        applies4 == features.Average_Usage_Pct > 85
        applies5 == /\ failure_risk < 3000
                 /\ features.Certificate_Compliance.num = features.Certificate_Compliance.den
                 /\ features.Open_Jobs = 0
        d1 == IF applies1 /\ ml_decision = "Service" THEN "Maintenance" ELSE ml_decision
        d2 == IF applies2 /\ ml_decision # "Maintenance" THEN "Maintenance" ELSE d1
        d3 == IF applies3 /\ ml_decision # "Maintenance" THEN "Maintenance" ELSE d2
        d4 == IF applies4 /\ ml_decision = "Service" THEN "Maintenance" ELSE d3
        d5 == IF applies5 /\ ml_decision = "Standby" THEN "Service" ELSE d4
        note(rule, text, override, otext) ==
            IF rule THEN << text >> \o (IF override THEN << otext >> ELSE << >>)
            ELSE << >>
        reasoning ==
            note(applies1, "Expired certificates detected", ml_decision = "Service",
                 "OVERRIDE: Cannot enter service with expired certificates")
            \o note(applies2, "High failure risk detected", ml_decision # "Maintenance",
                    "OVERRIDE: High failure risk requires maintenance")
            \o note(applies3, "Critical maintenance jobs pending", ml_decision # "Maintenance",
                    "OVERRIDE: Critical jobs require immediate attention")
            \o note(applies4, "High component wear", ml_decision = "Service",
                    "OVERRIDE: High wear requires maintenance before service")
            \o note(applies5, "Excellent condition - ideal for service", ml_decision = "Standby",
                    "OVERRIDE: Prioritizing excellent trains for service")
    IN  [final_decision |-> d5,
         reasoning      |-> IF reasoning = << >> THEN << "Standard decision" >>
                            ELSE reasoning,
         priority_score |-> engine_priority_score(features, failure_risk)]

\* the recommendation main stores for one train
recommendation(engine, features, ml_decision, failure_risk, rules) ==
    [engine             |-> engine,
     ml_decision        |-> ml_decision,
     failure_risk       |-> failure_risk,
     recommended_action |-> rules.final_decision,
     priority_score     |-> rules.priority_score,
     reasoning          |-> rules.reasoning,
     features           |-> features]

\* the run so far belongs to this engine
running(engine) ==
    \A i \in 1..Len(train_recommendations) : train_recommendations[i].engine = engine

\* fallback engine, models loaded: one pass of main's loop over the trains
fallback_main_ml(certs, open_jobs, usage, risk_answer, decision_answer) ==
    LET features == prepare_ml_features(certs, open_jobs, usage)
        failure_risk == fallback_predict_failure_risk(features, risk_answer)
        ml_decision == fallback_predict_optimal_decision(features, decision_answer)
    IN  /\ running("fallback, models loaded")
        /\ Len(train_recommendations) < MaxRecommended
        /\ train_recommendations' = Append(train_recommendations,
              recommendation("fallback, models loaded", features, ml_decision, failure_risk,
                  fallback_apply_business_rules(features, ml_decision, failure_risk)))
        /\ UNCHANGED << priorityVars, managerVars, consumerVars, depotVars, plannerVars >>

\* fallback engine, no model loaded: one pass of main's loop over the trains
fallback_main_rules(certs, open_jobs, usage) ==
    LET features == prepare_ml_features(certs, open_jobs, usage)
        failure_risk == fallback_rule_failure_risk(features)
        ml_decision == fallback_rule_decision(features, failure_risk)
    IN  /\ running("fallback, no model")
        /\ Len(train_recommendations) < MaxRecommended
        /\ train_recommendations' = Append(train_recommendations,
              recommendation("fallback, no model", features, ml_decision, failure_risk,
                  fallback_apply_business_rules(features, ml_decision, failure_risk)))
        /\ UNCHANGED << priorityVars, managerVars, consumerVars, depotVars, plannerVars >>

\* simple engine: one pass of main's loop over the trains
simple_main(certs, open_jobs, critical_jobs, usage) ==
    LET features == prepare_train_features(certs, open_jobs, critical_jobs, usage)
        failure_risk == calculate_failure_risk(features)
        ml_decision == simple_predict_optimal_decision(features, failure_risk)
    IN  /\ running("simple")
        /\ Len(train_recommendations) < MaxRecommended
        /\ train_recommendations' = Append(train_recommendations,
              recommendation("simple", features, ml_decision, failure_risk,
                  simple_apply_business_rules(features, ml_decision, failure_risk)))
        /\ UNCHANGED << priorityVars, managerVars, consumerVars, depotVars, plannerVars >>

\* the certificate rows of a train by status, its job cards and its usage
EngineCerts ==
    { [valid |-> 3, expired |-> 0, pending |-> 0],
      [valid |-> 2, expired |-> 1, pending |-> 0],
      [valid |-> 10, expired |-> 1, pending |-> 0] }
EngineOpenJobs == {0, 3}
EngineCriticalJobs == {0, 1}
EngineUsages == {50, 95}

\* what the loaded models answer: a failure probability, a decision, or an exception
ModelRisks == {None, Some(1000), Some(8000)}
ModelDecisions == {None, Some("Maintenance"), Some("Service"), Some("Standby")}

-----------------------------------------------------------------------------
(* Initial states and specifications *)

PriorityInit ==
    /\ coach_data = <<>>
    /\ ranked = <<>>
    /\ entry = None
    /\ pc = "idle"
    /\ wo_request = None
    /\ wo_result = "none"
    /\ evaluations = <<>>

ManagerInit ==
    /\ mgr_coach_data = <<>>
    /\ mgr_entry = None
    /\ mgr_job_card = [result |-> "none", card |-> None]
    /\ rankings = <<>>

ConsumerInit ==
    /\ coach_windows = [c \in Coaches |-> <<>>]
    /\ models = [c \in Coaches |-> 0]
    /\ received = [c \in Coaches |-> 0]
    /\ call = [coach |-> 0, defect |-> "none", result |-> "none",
               fitted |-> FALSE, queried |-> FALSE, published |-> FALSE]
    /\ out = None
    /\ sample = None

\* the layout file as the service finds it, no call begun
StoreInit ==
    /\ depot_file = [data |-> Some(StoreLayout), size |-> FileSize(StoreLayout)]
    /\ calls = [i \in 1..MaxCalls |-> IdleCall]
    /\ history = [committed |-> StoreLayout,
                  confirmed |-> [t \in {StoreLayout.tracks[k].trackId :
                                        k \in 1..Len(StoreLayout.tracks)} |-> None]]

\* no layout loaded, no path asked for, no stabling table generated
DepotInit ==
    /\ StoreInit
    /\ depot_data = [tracks |-> <<>>, switches |-> <<>>]
    /\ path_query = None
    /\ hops_path = None
    /\ cost_path = None
    /\ stabling_data = None

\* no train gone through by an optimization engine
EngineInit == train_recommendations = <<>>

\* no fleet loaded
PlannerInit ==
    /\ fleet = <<>>
    /\ depot_layout = None
    /\ stage = "none"
    /\ EngineInit

Init == PriorityInit /\ ManagerInit /\ ConsumerInit /\ DepotInit /\ PlannerInit

Next ==
    \/ \E c \in Coaches, cs \in CondScores, sv \in Severities,
          cr \in Criticalities, t \in TimesSinceMaint :
          on_message(c, cs, sv, cr, t)
    \/ \E o \in PostOutcomes : post_done(o)

Spec == Init /\ [][Next]_vars

ManagerNext ==
    \/ \E c \in Coaches, cs \in CondScores, sv \in Severities,
          cr \in Criticalities, t \in TimesSinceMaint, o \in PostOutcomes :
          update_coach_priority(c, cs, sv, cr, t, o)
    \/ get_priority_rankings

SpecManager == Init /\ [][ManagerNext]_vars

\* the consumer fed well-formed events and events that lack a sensor field
ConsumerNext ==
    \E c \in Coaches, s \in SensorReadings, d \in {"none", "missing_field"},
       is_anom \in BOOLEAN :
       consumer_on_message(c, s, d, TRUE, is_anom, MaxObs)

SpecConsumer == Init /\ [][ConsumerNext]_vars

\* the consumer fed any event, also one with a non-finite reading
ConsumerRawNext ==
    \E c \in Coaches, s \in SensorReadings, d \in {"none", "missing_field", "nan"},
       lib_ok \in BOOLEAN, is_anom \in BOOLEAN :
       /\ d = "nan" => \A k \in Coaches : AllFinite(coach_windows[k])
       /\ consumer_on_message(c, s, d, lib_ok, is_anom, MaxObsRaw)

SpecConsumerRaw == Init /\ [][ConsumerRawNext]_vars

\* the scorer alone: compute_condition_score and map_severity applied to one
\* sample, as lines 85 to 99 of on_message apply them
score_sample ==
    /\ sample # None
    /\ out = None
    /\ out' = Some(condition_record(sample[1].coach_id, sample[1].is_anom,
                                    extract_features(sample[1].sensors, "none")))
    /\ UNCHANGED << coach_windows, models, received, call, sample >>
    /\ UNCHANGED << priorityVars, managerVars, depotVars, plannerVars, engineVars >>

ScoreVibrations ==
    {<<a, 0>> : a \in {0, 249, 250, 251, 499, 500, 501, 699, 700, 701, 1000, 1200}}
        \cup {<<30, 40>>, <<150, 200>>}
ScoreBearingTemps == {400, 500, 505, 600}
ScoreMotorTemps == {500, 550, 555, 650}

ScoreInit ==
    /\ PriorityInit /\ ManagerInit /\ DepotInit /\ PlannerInit
    /\ coach_windows = [c \in Coaches |-> <<>>]
    /\ models = [c \in Coaches |-> 0]
    /\ received = [c \in Coaches |-> 0]
    /\ call = [coach |-> 0, defect |-> "none", result |-> "none",
               fitted |-> FALSE, queried |-> FALSE, published |-> FALSE]
    /\ out = None
    /\ \E v \in ScoreVibrations, b \in ScoreBearingTemps, m \in ScoreMotorTemps,
          a \in BOOLEAN :
          sample = Some([coach_id |-> 101, is_anom |-> a,
                         sensors |-> [vibration_axle_1 |-> v[1], vibration_axle_2 |-> v[2],
                                      bearing_temp_1 |-> b, motor_temp |-> m,
                                      door_motor_current |-> 10]])

SpecScore == ScoreInit /\ [][score_sample]_vars

\* the pipeline: the condition record the consumer publishes on
\* kmrl/coach/<id>/condition is the payload of the priority engine's
\* on_message, which is subscribed to kmrl/coach/+/condition
condition_delivered ==
    /\ out # None
    /\ evaluations = <<>>
    /\ on_message(out[1].coach_id, out[1].condition_score, out[1].fault_severity,
                  out[1].criticality, out[1].time_since_maint)

PipelineNext ==
    \/ score_sample
    \/ condition_delivered
    \/ \E o \in PostOutcomes : post_done(o)

SpecPipeline == ScoreInit /\ [][PipelineNext]_vars

\* The priority engine fed payloads whose weighted sum does not fall on a
\* tenth: <<condition_score in tenths, fault_severity, criticality,
\* time_since_maint>>; the weighted sums are 11.25, 11.16, 11.79, 69.97,
\* 69.925, 79.96, 70.0, 44.5 and 50.5.
UrgencyPayloads ==
    {<<900, "Low", 20, 5>>, <<902, "Low", 20, 5>>, <<888, "Low", 20, 5>>,
     <<334, "Critical", 70, 40>>, <<335, "Critical", 70, 40>>,
     <<112, "Critical", 70, 40>>, <<200, "Critical", 40, 40>>,
     <<500, "Medium", 40, 40>>, <<500, "High", 40, 40>>}

UrgencyNext ==
    \/ \E c \in Coaches, p \in UrgencyPayloads :
          /\ Len(evaluations) < MaxUrgencyEvals
          /\ on_message(c, p[1], p[2], p[3], p[4])
    \/ \E o \in PostOutcomes : post_done(o)

SpecUrgency == Init /\ [][UrgencyNext]_vars

\* The priority engine fed payloads whose urgencies spread from 47 to 165:
\* <<condition_score in tenths, fault_severity, criticality, time_since_maint>>
RequestPayloads ==
    {<<cs, sv, cr, t>> : cs \in {0}, sv \in {"Low", "Critical"},
                         cr \in {0, 100, 200}, t \in {0, 40, 400}}

RequestNext ==
    \/ \E c \in Coaches, p \in RequestPayloads :
          /\ Len(evaluations) < MaxRequestEvals
          /\ on_message(c, p[1], p[2], p[3], p[4])
    \/ \E o \in PostOutcomes : post_done(o)

SpecRequest == Init /\ [][RequestNext]_vars

\* the path searches asked about one of the layouts
DepotPathInit ==
    /\ PriorityInit /\ ManagerInit /\ ConsumerInit /\ PlannerInit
    /\ StoreInit
    /\ depot_data \in Layouts
    /\ path_query = None
    /\ hops_path = None
    /\ cost_path = None
    /\ stabling_data = None

DepotNext == \E start \in QueryStarts, end \in QueryEnds : get_path(start, end)

SpecDepot == DepotPathInit /\ [][DepotNext]_vars

\* the stabling table generated for one of the yards
GeometryInit ==
    /\ PriorityInit /\ ManagerInit /\ ConsumerInit /\ PlannerInit
    /\ StoreInit
    /\ depot_data \in YardLayouts
    /\ path_query = None
    /\ hops_path = None
    /\ cost_path = None
    /\ stabling_data = None

GeometryNext ==
    LET len == Len(stabling_tracks(depot_data))
        n == Min(NumTrains, len)
    IN  \E drawn \in Samples(n, len), tomorrow \in [1..n -> TomorrowStatuses] :
            generate_advanced_stabling_geometry(drawn, tomorrow)

SpecGeometry == GeometryInit /\ [][GeometryNext]_vars

\* a planning run over one of the fleets
PlannerFleetInit ==
    /\ PriorityInit /\ ManagerInit /\ ConsumerInit /\ DepotInit
    /\ fleet \in Fleets
    /\ depot_layout = None
    /\ stage = "initialized"
    /\ EngineInit

PlannerNext ==
    \/ \E pattern \in BulkPatterns, p \in [1..MaxFree -> FreeProbabilities] :
          run_predictive_maintenance(
              [i \in 1..Len(fleet) |->
                  IF fleet[i].id > 100
                  THEN BulkProbability(pattern, fleet[i].id - 100)
                  ELSE p[fleet[i].id]])
    \/ run_induction_planner
    \/ \E layout \in DepotLayouts : run_stabling_planner(layout)

SpecPlanner == PlannerFleetInit /\ [][PlannerNext]_vars

\* the planning run followed by a second scoring and a second induction
\* planning of the same fleet
PredictedProbabilities(pattern, p) ==
    [i \in 1..Len(fleet) |->
        IF fleet[i].id > 100 THEN BulkProbability(pattern, fleet[i].id - 100)
        ELSE p[fleet[i].id]]

ReplanNext ==
    \/ \E pattern \in BulkPatterns, p \in [1..MaxFree -> FreeProbabilities] :
          run_predictive_maintenance(PredictedProbabilities(pattern, p))
    \/ run_induction_planner
    \/ \E pattern \in BulkPatterns, p \in [1..MaxFree -> FreeProbabilities] :
          second_predictive_maintenance(PredictedProbabilities(pattern, p))
    \/ second_induction_planner

SpecReplan == PlannerFleetInit /\ [][ReplanNext]_vars

\* the calls on the layout file, each one a request the server handles on a
\* thread of its own
StoreNext ==
    \E i \in 1..MaxCalls :
        \/ \E track_id \in UpdateTracks, new_status \in NewStatuses :
               update_track_status(i, track_id, new_status)
        \/ save_depot_open(i)
        \/ save_depot_close(i)
        \/ get_muttom_depot(i)
        \/ \E end \in PathEnds : get_efficient_path_endpoint(i, "A", end)

SpecStore == Init /\ [][StoreNext]_vars

-----------------------------------------------------------------------------
(* The priority engine and the maintenance trigger (priority.py)            *)

\* the evaluations of coach c, oldest first
Of(c) == SelectSeq(evaluations, LAMBDA x : x.coach_id = c)

AtOrAbove(u) == u >= 700

\* C1: at most one request per continuous above-threshold episode: an
\* evaluation of a coach at or above the threshold that follows an evaluation
\* of the same coach at or above the threshold posts no request.
C1_AtMostOneRequestPerEpisode ==
    \A c \in Coaches :
        \A i \in 2..Len(Of(c)) :
            (AtOrAbove(Of(c)[i - 1].urgency) /\ AtOrAbove(Of(c)[i].urgency))
                => ~Of(c)[i].posted

C3_DeliveryFailureKeepsState ==
    [][(pc = "posting" /\ pc' # "posting" /\ wo_result' \in {"not_ok", "exception"})
          => /\ pc' = "idle"
             /\ coach_data' = coach_data
             /\ ranked' = ranked
             /\ entry' = entry
             /\ evaluations' = evaluations]_vars

\* a delivery has failed and the coach it was for is still stored at or above
\* the threshold
C3_Witness ==
    /\ pc = "idle"
    /\ wo_result = "exception"
    /\ entry # None
    /\ IndexOf(coach_data, entry[1].coach_id) # 0
    /\ Get(coach_data, entry[1].coach_id) = entry[1]
    /\ AtOrAbove(entry[1].priority)

\* the latest evaluation of coach c
Latest(c) == Of(c)[Len(Of(c))]

\* C4: one entry per coach, the latest: the coaches stored are the coaches
\* ever updated, each once; each entry holds the inputs and the urgency of
\* the coach's latest update; and the ranking holds exactly these entries,
\* each once.
C4_OneLatestEntryPerCoach ==
    /\ \A i, j \in 1..Len(coach_data) :
           coach_data[i].coach_id = coach_data[j].coach_id => i = j
    /\ Keys(coach_data) = {evaluations[i].coach_id : i \in 1..Len(evaluations)}
    /\ \A i \in 1..Len(coach_data) :
           LET e == coach_data[i]
               l == Latest(e.coach_id)
           IN  /\ <<e.condition_score, e.fault_severity, e.criticality,
                    e.time_since_maint>> = l.inputs
               /\ e.priority = l.urgency
    /\ Len(ranked) = Len(coach_data)
    /\ \A i \in 1..Len(coach_data) :
           Cardinality({j \in 1..Len(ranked) : ranked[j] = coach_data[i]}) = 1

\* a coach was updated twice with different urgencies while another coach is
\* stored too
C4_Witness ==
    /\ Len(coach_data) = 2
    /\ \E c \in Coaches :
           /\ Len(Of(c)) >= 2
           /\ Of(c)[1].urgency # Latest(c).urgency

\* C5: the ranking is ordered by urgency descending and, among equal
\* urgencies, by coach id ascending.
C5_RankedByUrgencyThenId ==
    \A i, j \in 1..Len(ranked) :
        i < j => \/ ranked[i].priority > ranked[j].priority
                 \/ /\ ranked[i].priority = ranked[j].priority
                    /\ ranked[i].coach_id < ranked[j].coach_id

-----------------------------------------------------------------------------
(* The ranking of the job-card priority manager                             *)

\* C6: producing the ranking leaves the stored entries as they are, and a
\* ranking produced with no update since the previous one equals it, in
\* order and in values.
C6_RankingIsReadOnlyAndRepeatable ==
    [][Len(rankings') > Len(rankings)
          => /\ mgr_coach_data' = mgr_coach_data
             /\ Len(rankings) >= 1
                    => rankings'[Len(rankings')] = rankings[Len(rankings)]]_vars

\* two rankings were produced after an update that left two coaches stored
\* in an order that is not the ranked order
C6_Witness ==
    /\ Len(rankings) = 2
    /\ Len(mgr_coach_data) = 2
    /\ mgr_coach_data[1].priority_score < mgr_coach_data[2].priority_score
    /\ rankings[2].ranked_coaches[1] = mgr_coach_data[2]

-----------------------------------------------------------------------------
(* The telemetry consumer (realtime_consumer.py)                            *)

\* C7: the window of a coach never holds more than WINDOW_SIZE vectors and
\* holds the latest min(k, WINDOW_SIZE) of the k vectors received for the
\* coach, oldest first.
C7_WindowHoldsLatest ==
    \A c \in Coaches :
        LET w == coach_windows[c]
            k == received[c]
            len == IF k <= 30 THEN k ELSE 30
        IN  /\ Len(w) <= 30
            /\ Len(w) = len
            /\ \A i \in 1..len : w[i].n = k - len + i

\* more than WINDOW_SIZE vectors were received for a coach: the oldest ones
\* are gone
C7_Witness ==
    \E c \in Coaches :
        /\ received[c] = 32
        /\ Len(coach_windows[c]) = 30
        /\ coach_windows[c][1].n = 3
        /\ coach_windows[c][30].n = 32

\* C8: the warm-up floor is 15: while a coach has sent fewer than 15 vectors
\* it has no model and no condition record, and each of its vectors is
\* answered Warming without a fit, a query or a publication; each vector
\* from the 15th on is classified Normal or Anomalous and published.
C8_WarmUpFloor ==
    /\ \A c \in Coaches : received[c] < 15 => models[c] = 0
    /\ out # None => received[out[1].coach_id] >= 15
    /\ (call.coach # 0 /\ call.defect = "none") =>
           IF received[call.coach] < 15
           THEN /\ call.result = "Warming"
                /\ ~call.fitted /\ ~call.queried /\ ~call.published
           ELSE /\ call.result \in {"Normal", "Anomalous"}
                /\ call.queried /\ call.published
                /\ out # None /\ out[1].coach_id = call.coach

\* the 15th vector of a coach has just been classified, while the other
\* coach, at its 14th, is still without a model
C8_Witness ==
    /\ call.coach # 0
    /\ received[call.coach] = 15
    /\ call.result \in {"Normal", "Anomalous"}
    /\ call.fitted
    /\ \E c \in Coaches : received[c] = 14 /\ models[c] = 0

\* C9: an event with a malformed feature vector (a missing sensor field, a
\* non-finite reading) fails the call with an error and leaves the windows
\* and the models as they were.
C9_MalformedEventRejected ==
    [][call'.defect # "none"
          => /\ call'.result \in {"KeyError", "ValueError"}
             /\ coach_windows' = coach_windows
             /\ models' = models]_vars

-----------------------------------------------------------------------------
(* The condition scorer (realtime_consumer.py)                              *)

\* C10: the health score of a condition record is in [0, 100], is 20 when
\* the sample is anomalous, and the severity is Low iff score > 75, Medium
\* iff 50 < score <= 75, High iff 30 < score <= 50, Critical iff score <= 30.
C10_ScoreRangeAndSeverity ==
    out # None =>
        LET score == out[1].condition_score
            severity == out[1].fault_severity
        IN  /\ 0 <= score /\ score <= 1000
            /\ sample[1].is_anom => score = 200
            /\ severity \in {"Low", "Medium", "High", "Critical"}
            /\ severity = "Low" <=> score > 750
            /\ severity = "Medium" <=> (500 < score /\ score <= 750)
            /\ severity = "High" <=> (300 < score /\ score <= 500)
            /\ severity = "Critical" <=> score <= 300

\* a sample that is not anomalous scored exactly 75.0, the upper end of Medium
C10_Witness ==
    /\ out # None
    /\ ~sample[1].is_anom
    /\ out[1].condition_score = 750
    /\ out[1].fault_severity = "Medium"

-----------------------------------------------------------------------------
(* The urgency formula (priority.py)                                        *)

\* the severity scale of the urgency formula
SeverityValue(severity) ==
    CASE severity = "Low" -> 10
      [] severity = "Medium" -> 40
      [] severity = "High" -> 70
      [] severity = "Critical" -> 100

\* 0.45*(100 - health) + 0.20*criticality + 0.15*time + 0.20*severity_value
\* of the inputs of an evaluation, exact, in thousandths
WeightedSum(inputs) ==
    45 * (1000 - inputs[1]) + 200 * inputs[3] + 150 * inputs[4]
        + 200 * SeverityValue(inputs[2])

\* C11: the urgency stored for a coach is the weighted sum of its inputs
\* rounded to one decimal place (a tenth at most 0.05 away from the sum), and
\* this one rounded number is what the entry stores, what the ranking is
\* ordered by, what is compared with the threshold and what the priority of
\* the request is mapped from.
C11_UrgencyRoundedOnce ==
    /\ \A i \in 1..Len(evaluations) :
           LET u == evaluations[i].urgency
               x == WeightedSum(evaluations[i].inputs)
           IN  /\ 100 * u - x <= 50
               /\ x - 100 * u <= 50
               /\ evaluations[i].posted <=> u >= 700
    /\ \A i \in 1..Len(coach_data) :
           coach_data[i].priority = Latest(coach_data[i].coach_id).urgency
    /\ \A i, j \in 1..Len(ranked) :
           /\ \E k \in 1..Len(coach_data) : ranked[i] = coach_data[k]
           /\ i < j => ranked[i].priority >= ranked[j].priority
    /\ wo_request # None =>
           LET u == evaluations[Len(evaluations)].urgency
           IN  /\ u = entry[1].priority
               /\ u >= 700
               /\ wo_request[1].priority = Max(1, Min(5, 6 - (u \div 200)))

\* 11.25 was stored as 11.2, and then 79.96 was stored as 80.0, which is at
\* the threshold or above and maps to priority 2 (79.96 would map to 3)
C11_Witness ==
    /\ Len(evaluations) = 2
    /\ evaluations[1].inputs = <<900, "Low", 20, 5>>
    /\ evaluations[1].urgency = 112
    /\ ~evaluations[1].posted
    /\ evaluations[2].inputs = <<112, "Critical", 70, 40>>
    /\ evaluations[2].urgency = 800
    /\ pc = "posting"
    /\ wo_request[1].priority = 2

-----------------------------------------------------------------------------
(* The path searches (depot_manager.py)                                     *)

\* the ids of the switches of the layout, and the tracks its switches name
SwitchIds == {depot_data.switches[k].switchId : k \in 1..Len(depot_data.switches)}
SwitchTracks ==
    UNION {Range(depot_data.switches[k].connectsTracks) : k \in 1..Len(depot_data.switches)}

\* switch sw of the layout connects the two distinct tracks t1 and t2
Connects(sw, t1, t2) ==
    /\ t1 # t2
    /\ \E k \in 1..Len(depot_data.switches) :
           /\ depot_data.switches[k].switchId = sw
           /\ t1 \in Range(depot_data.switches[k].connectsTracks)
           /\ t2 \in Range(depot_data.switches[k].connectsTracks)

\* the valid paths of at most n hops that begin at track a: a track, then
\* any number of (switch, track) hops, each over a switch that connects the
\* two tracks
RECURSIVE RoutesFrom(_, _)
RoutesFrom(a, n) ==
    IF n = 0 THEN {<<a>>}
    ELSE CHOOSE routes \in
             { shorter \cup
               UNION {{p \o <<sw, t>> : sw \in {s \in SwitchIds : Connects(s, p[Len(p)], t)}} :
                      p \in {r \in shorter : Len(r) = 2 * n - 1}, t \in SwitchTracks} :
               shorter \in {RoutesFrom(a, n - 1)} } : TRUE

\* the valid paths from the start to the end of the latest request
ValidRoutes ==
    {p \in RoutesFrom(path_query[1].start, MaxHops) : p[Len(p)] = path_query[1].end}

Hops(p) == (Len(p) - 1) \div 2

\* the configured distance of a track, 1 when the layout gives none
DistanceOf(t) ==
    IF \E i \in 1..Len(depot_data.tracks) :
           depot_data.tracks[i].trackId = t /\ depot_data.tracks[i].distance_metres # None
    THEN (CHOOSE d \in {depot_data.tracks[i].distance_metres[1] :
                          i \in {j \in 1..Len(depot_data.tracks) :
                                   /\ depot_data.tracks[j].trackId = t
                                   /\ depot_data.tracks[j].distance_metres # None}} : TRUE)
    ELSE 1

\* the sum of the distances of the tracks at the places from..upto of a path
\* (tracks are at the odd places)
RECURSIVE SumDistances(_, _, _)
SumDistances(p, from, upto) ==
    IF from > upto THEN 0
    ELSE DistanceOf(p[from]) + SumDistances(p, from + 2, upto)

\* the cost of a path when every hop is charged the distance of the track
\* it leaves, and when every hop is charged the distance of the track it enters
CostLeaving(p) == SumDistances(p, 1, Len(p) - 2)
CostEntering(p) == SumDistances(p, 3, Len(p))

\* what the claims compare of the valid paths of at most n hops that begin at
\* track a: for each of them its last track, its number of hops and its cost
\* under either charge (paths that agree in all four count once)
RECURSIVE RouteSummaries(_, _)
RouteSummaries(a, n) ==
    IF n = 0 THEN {[track |-> a, hops |-> 0, leaving |-> 0, entering |-> 0]}
    ELSE CHOOSE summaries \in
             { shorter \cup
               UNION {{[track    |-> t,
                        hops     |-> n,
                        leaving  |-> r.leaving + DistanceOf(r.track),
                        entering |-> r.entering + DistanceOf(t)] :
                       t \in {u \in SwitchTracks : \E sw \in SwitchIds : Connects(sw, r.track, u)}} :
                      r \in {x \in shorter : x.hops = n - 1}} :
               shorter \in {RouteSummaries(a, n - 1)} } : TRUE

\* the summaries of the valid paths from the start to the end of the latest
\* request
ValidSummaries ==
    {r \in RouteSummaries(path_query[1].start, MaxHops) : r.track = path_query[1].end}

\* C12: the path find_path returns has no more switch traversals than any
\* valid path between the two tracks.
C12_FewestSwitchTraversals ==
    (path_query # None /\ hops_path # None) =>
        \A r \in ValidSummaries : Hops(hops_path) <= r.hops

\* a path of two hops was returned where a valid path of three hops over
\* other tracks exists, which the search meets first when it goes deep
C12_Witness ==
    /\ path_query # None
    /\ hops_path # None
    /\ Hops(hops_path) = 2
    /\ \E p \in ValidRoutes :
           /\ Hops(p) = 3
           /\ p[3] # hops_path[3]
           /\ \A i, j \in 1..Len(p) : p[i] = p[j] => i = j

\* C13: the total cost find_efficient_path returns is the sum of the costs
\* of the hops of the path it returns, and no valid path between the two
\* tracks costs less.  A hop costs what the search charges for it, the
\* distance of the track the hop leaves; with the same end tracks the costs
\* charged on entering differ from these by a constant, so the path is the
\* cheapest under either charge.
C13_CheapestPath ==
    (path_query # None /\ cost_path # None) =>
        LET path == cost_path[1].path
            total == cost_path[1].total_cost_metres
        IN  /\ total = CostLeaving(path)
            /\ \A r \in ValidSummaries :
                   /\ total <= r.leaving
                   /\ CostEntering(path) <= r.entering

\* the cheapest path was returned where a valid path with as few hops, met
\* earlier by the search, costs more
C13_Witness ==
    /\ path_query # None
    /\ cost_path # None
    /\ Hops(cost_path[1].path) = 2
    /\ cost_path[1].path[3] = "C"
    /\ \E p \in ValidRoutes :
           /\ Hops(p) = 2
           /\ p[3] = "B"
           /\ CostLeaving(p) > cost_path[1].total_cost_metres

\* C14: a hop costs the distance of the track it enters: the total cost
\* returned is the sum of the distances of the tracks entered, and for
\* A(100), B(50), C(80) with S1{A,B}, S2{B,C} the cheapest path from A to C is
\* A, S1, B, S2, C at cost 130.
C14_HopCostsEnteredTrack ==
    (path_query # None /\ cost_path # None) =>
        /\ cost_path[1].total_cost_metres = CostEntering(cost_path[1].path)
        /\ (/\ path_query[1] = [start |-> "A", end |-> "C"]
            /\ [k \in 1..Len(depot_data.switches) |-> depot_data.switches[k].connectsTracks]
                   = << <<"A", "B">>, <<"B", "C">> >>
            /\ DistanceOf("A") = 100 /\ DistanceOf("B") = 50 /\ DistanceOf("C") = 80)
           => /\ cost_path[1].path = <<"A", "S1", "B", "S2", "C">>
              /\ cost_path[1].total_cost_metres = 130

\* C15: both searches return None whenever the start or the end track is not
\* a track of the graph built from the switches or no chain of switches
\* connects them, both return a path in every other case, and so they agree.
C15_NotFoundExactlyWhenUnreachable ==
    path_query # None =>
        LET absent == \/ path_query[1].start \notin SwitchTracks
                      \/ path_query[1].end \notin SwitchTracks
            connected == ValidSummaries # {}
        IN  /\ (absent \/ ~connected) => (hops_path = None /\ cost_path = None)
            /\ (~absent /\ connected) => (hops_path # None /\ cost_path # None)
            /\ (hops_path = None) <=> (cost_path = None)

\* the layout lists a track that no switch connects, a path to it was asked
\* for from a track that has switches, and both searches returned None; and
\* for two tracks that are both in the graph but not connected, likewise
C15_Witness ==
    /\ path_query # None
    /\ hops_path = None /\ cost_path = None
    /\ \/ /\ path_query[1].start \in SwitchTracks
          /\ path_query[1].end \notin SwitchTracks
          /\ \E i \in 1..Len(depot_data.tracks) :
                 depot_data.tracks[i].trackId = path_query[1].end
       \/ /\ path_query[1].start \in SwitchTracks
          /\ path_query[1].end \in SwitchTracks
          /\ Len(depot_data.switches) = 3

\* a path is a well-formed route from a to b
WellFormedRoute(p, a, b) ==
    /\ Len(p) % 2 = 1
    /\ p[1] = a
    /\ p[Len(p)] = b
    /\ \A i \in 1..Len(p) : IF i % 2 = 1 THEN p[i] \in SwitchTracks ELSE p[i] \in SwitchIds
    /\ \A i, j \in 1..Len(p) : (i % 2 = 1 /\ j % 2 = 1 /\ p[i] = p[j]) => i = j
    /\ \A i \in 1..Len(p) : i % 2 = 0 => Connects(p[i], p[i - 1], p[i + 1])

\* C16: every path either search returns is a well-formed route: odd length,
\* track, switch, track, ..., from the start to the end, no track twice, every
\* switch connecting the two distinct tracks around it.
C16_PathsAreWellFormed ==
    path_query # None =>
        /\ hops_path # None =>
               WellFormedRoute(hops_path, path_query[1].start, path_query[1].end)
        /\ cost_path # None =>
               WellFormedRoute(cost_path[1].path, path_query[1].start, path_query[1].end)

\* both searches returned a path of three hops over the third switch of the
\* layout
C16_Witness ==
    /\ hops_path # None /\ cost_path # None
    /\ Len(hops_path) = 7
    /\ Len(cost_path[1].path) = 7
    /\ hops_path[6] = "S3"
    /\ cost_path[1].path[6] = "S3"

-----------------------------------------------------------------------------
(* The stabling table (enhanced_data_generator.py)                          *)

\* C17: a train whose assigned track has no path to the mainline gets the
\* default cost (distance 500, energy cost 1000) and its needs-reallocation
\* flag set.
C17_UnreachableTrackIsFlagged ==
    stabling_data # None =>
        \A i \in 1..Len(stabling_data[1]) :
            stabling_data[1][i].Path_To_Mainline = <<"No path">> =>
                /\ stabling_data[1][i].Distance_To_Mainline_M = 500
                /\ stabling_data[1][i].Energy_Cost_INR = 1000
                /\ stabling_data[1][i].Needs_Reallocation

-----------------------------------------------------------------------------
(* The induction planner and the stabling planner (optimization_engine.py)  *)

Planned == stage \in {"planned", "stabled"}

IsRun(t) == t.decision \in {"Run (Branding)", "Run (Mileage Balance)"}

RunCount == Cardinality({i \in 1..Len(fleet) : IsRun(fleet[i])})
BrandingRunCount == Cardinality({i \in 1..Len(fleet) : fleet[i].decision = "Run (Branding)"})
BalanceRunCount ==
    Cardinality({i \in 1..Len(fleet) : fleet[i].decision = "Run (Mileage Balance)"})

\* C18: once the induction planner has run, no train that is At Risk
\* (failure probability above 0.6) has a Run decision, branded or not.
C18_AtRiskNeverRuns ==
    Planned =>
        \A i \in 1..Len(fleet) :
            /\ fleet[i].health_status = "At Risk" <=> fleet[i].failure_probability > 60
            /\ fleet[i].health_status = "At Risk" => ~IsRun(fleet[i])

\* a fleet of more than 18 trains was planned in which a branded train is At
\* Risk and needs maintenance while another branded train runs
C18_Witness ==
    /\ Planned
    /\ Len(fleet) > 18
    /\ \E i, j \in 1..Len(fleet) :
           /\ fleet[i].is_branded /\ fleet[i].health_status = "At Risk"
           /\ fleet[i].decision = "Needs Maintenance"
           /\ fleet[j].is_branded /\ fleet[j].decision = "Run (Branding)"

\* the tracks of the pools a train is eligible for, by its decision and its
\* cleaning need
EligibleTracks(t) ==
    IF t.decision = "Needs Maintenance" THEN Range(depot_layout[1].maintenance)
    ELSE IF t.needs_cleaning
    THEN Range(depot_layout[1].cleaning) \cup Range(depot_layout[1].standard)
    ELSE Range(depot_layout[1].standard)

\* the place of a train in the parking order: the stabling key (maintenance
\* first, then by cleaning need, Run before Standby, then mileage), equal keys
\* in fleet order
KeyBefore(a, b) ==
    \E k \in 1..4 :
        /\ \A m \in 1..(k - 1) : a[m] = b[m]
        /\ a[k] < b[k]

ParkingKey(t) ==
    << IF t.decision = "Needs Maintenance" THEN 0 ELSE 1,
       IF t.needs_cleaning THEN 1 ELSE 0,
       IF IsRun(t) THEN 0 ELSE 1,
       t.mileage >>

ParkedBefore(j, i) ==
    \/ KeyBefore(ParkingKey(fleet[j]), ParkingKey(fleet[i]))
    \/ ParkingKey(fleet[j]) = ParkingKey(fleet[i]) /\ j < i

\* C19: the stabling planner gives every train of the fleet one stabling
\* track: a track of a pool the train is eligible for, which no other train
\* is given, or OVERFLOW; and OVERFLOW only when the pools the train is
\* eligible for are empty at its turn, every track of them having been given
\* to a train parked before it.
C19_StablingIsTotal ==
    stage = "stabled" =>
        \A i \in 1..Len(fleet) :
            /\ fleet[i].stabling_track \in EligibleTracks(fleet[i]) \cup {"OVERFLOW"}
            /\ fleet[i].stabling_track # "OVERFLOW" =>
                   \A j \in 1..Len(fleet) :
                       j # i => fleet[j].stabling_track # fleet[i].stabling_track
            /\ fleet[i].stabling_track = "OVERFLOW" =>
                   \A track \in EligibleTracks(fleet[i]) :
                       \E j \in 1..Len(fleet) :
                           ParkedBefore(j, i) /\ fleet[j].stabling_track = track

\* a train to be cleaned overflowed after the standard tracks were used up,
\* while another train to be cleaned took a standard track for want of a
\* cleaning bay
C19_Witness ==
    /\ stage = "stabled"
    /\ depot_layout[1].standard # <<>>
    /\ \E i, j \in 1..Len(fleet) :
           /\ fleet[i].needs_cleaning /\ fleet[i].decision # "Needs Maintenance"
           /\ fleet[i].stabling_track = "OVERFLOW"
           /\ fleet[j].needs_cleaning /\ fleet[j].decision # "Needs Maintenance"
           /\ fleet[j].stabling_track \in Range(depot_layout[1].standard)

\* (failure probability, mileage) of a is strictly smaller than that of b
PairLess(a, b) ==
    \/ a.failure_probability < b.failure_probability
    \/ a.failure_probability = b.failure_probability /\ a.mileage < b.mileage

FilledInOrder ==
    \A i, j \in 1..Len(fleet) :
        fleet[i].decision = "Standby" /\ fleet[j].decision = "Run (Mileage Balance)"
            => ~PairLess(fleet[i], fleet[j])

\* C20 as stated: after planning at most 18 trains have a Run decision, and
\* no Standby train has a strictly smaller (failure probability, mileage)
\* pair than a train run for mileage balance.
C20_RunWithinQuotaInOrder ==
    Planned => RunCount <= SERVICE_REQUIREMENT /\ FilledInOrder

\* C20 as amended: rule 3 fills only the slots the branded trains leave of
\* the quota of 18, so the trains run for mileage balance number at most
\* 18 less the trains run for branding (none when those reach the quota),
\* and no Standby train has a strictly smaller (failure probability,
\* mileage) pair than a train run for mileage balance.
C20_MileageBalanceWithinQuotaInOrder ==
    Planned =>
        /\ BalanceRunCount <= Max(0, SERVICE_REQUIREMENT - BrandingRunCount)
        /\ RunCount <= Max(SERVICE_REQUIREMENT, BrandingRunCount)
        /\ FilledInOrder

\* the quota was met exactly by branded and mileage-balance runs together,
\* and a healthy train stayed on Standby behind a run train of another
\* failure probability
C20_Witness ==
    /\ Planned
    /\ BrandingRunCount > 0
    /\ BalanceRunCount > 0
    /\ RunCount = SERVICE_REQUIREMENT
    /\ \E i, j \in 1..Len(fleet) :
           /\ fleet[i].decision = "Standby"
           /\ fleet[j].decision = "Run (Mileage Balance)"
           /\ fleet[j].failure_probability < fleet[i].failure_probability
           /\ fleet[i].mileage < fleet[j].mileage

-----------------------------------------------------------------------------
(* The refits of the anomaly models (realtime_consumer.py)                  *)

\* C21: a model is refitted periodically and not on every sample: when a
\* sample of a coach refits the model of the coach, the sample of that coach
\* before it was classified without a fit, also once the window holds
\* WINDOW_SIZE vectors.
C21_RefitNotOnEverySample ==
    [][\A c \in Coaches :
          (/\ received'[c] = received[c] + 1
           /\ models[c] # 0
           /\ call'.fitted)
          => models[c] # received[c]]_vars

-----------------------------------------------------------------------------
(* The delivery of the work-order requests (priority.py)                    *)

\* C22: the delivery of a request does not block the evaluation loop: while
\* the request for a coach is still being delivered, a condition update of
\* another coach can be processed (its entry stored and the ranking
\* published).
C22_DeliveryDoesNotBlock ==
    (pc = "posting" /\ Len(evaluations) < MaxEvals) =>
        \E b \in Coaches \ {wo_request[1].assetnum}, cs \in CondScores, sv \in Severities,
           cr \in Criticalities, t \in TimesSinceMaint :
            ENABLED on_message(b, cs, sv, cr, t)

-----------------------------------------------------------------------------
(* The induction planner invoked again (optimization_engine.py)             *)

\* the fleet with its current attributes and the decisions of a fleet just
\* initialised
FreshFleet(f) == [i \in 1..Len(f) |-> [f[i] EXCEPT !.decision = "Standby"]]

\* C23: every invocation of the induction planner rebuilds all decisions:
\* after it was invoked again on the same fleet with changed attributes, the
\* decisions are those it gives a freshly initialised fleet with the same
\* current attributes.
C23_ReplanRebuildsDecisions ==
    stage = "replanned" =>
        fleet = rule3(rule2(rule1(FreshFleet(fleet))))

-----------------------------------------------------------------------------
(* The layout file under concurrent calls (depot_manager.py, routes.py)     *)

\* the status the layout gives track t
StatusIn(depot, t) ==
    LET i == CHOOSE k \in 1..Len(depot.tracks) : depot.tracks[k].trackId = t
    IN  depot.tracks[i].status

LayoutTracks == {StoreLayout.tracks[k].trackId : k \in 1..Len(StoreLayout.tracks)}

Saving == {j \in 1..MaxCalls : calls[j].pc = "dump"}
Updating == {j \in 1..MaxCalls : calls[j].pc \in {"save", "dump"}}

\* C24: a load or a path request leaves the layout file as it is and observes
\* a complete layout, never a load error: the layout last written completely
\* or the layout of a save in progress; with no update in progress it
\* observes the status of every update that has returned success.
C24_LoadsSeeASnapshot ==
    [][\A i \in 1..MaxCalls :
          (calls[i].pc = "idle" /\ calls'[i].op \in {"load", "path"}) =>
              /\ depot_file' = depot_file
              /\ calls'[i].depot_data # None
              /\ calls'[i].depot_data[1]
                     \in {history.committed} \cup {calls[j].depot_data[1] : j \in Saving}
              /\ Updating = {} =>
                     \A t \in LayoutTracks :
                         history.confirmed[t] # None =>
                             StatusIn(calls'[i].depot_data[1], t) = history.confirmed[t][1]]_vars

\* C28: once update_track_status has set a track to a status other than
\* OPERATIONAL, no path that find_path or find_efficient_path returns on the
\* layout loaded afterwards passes through the track or ends on it.
C28_PathsAvoidClosedTracks ==
    \A i \in 1..MaxCalls :
        (calls[i].op = "path" /\ calls[i].depot_data # None) =>
            \A t \in LayoutTracks :
                StatusIn(calls[i].depot_data[1], t) # "OPERATIONAL" =>
                    /\ calls[i].hops_path # None => t \notin Range(calls[i].hops_path)
                    /\ calls[i].cost_path # None => t \notin Range(calls[i].cost_path[1].path)

\* both updates of a pair of calls on two different tracks have returned
\* success, and no other call updates the layout
BothReturned(i, j) ==
    /\ i # j
    /\ calls[i].op = "update" /\ calls[i].result = "success"
    /\ calls[j].op = "update" /\ calls[j].result = "success"
    /\ calls[i].track_id # calls[j].track_id
    /\ \A k \in 1..MaxCalls \ {i, j} : calls[k].op # "update"

BothTookEffect(i, j) ==
    /\ depot_file.data # None
    /\ StatusIn(depot_file.data[1], calls[i].track_id) = calls[i].new_status
    /\ StatusIn(depot_file.data[1], calls[j].track_id) = calls[j].new_status
    /\ depot_file.data[1].switches = StoreLayout.switches
    /\ \A k \in 1..Len(StoreLayout.tracks) :
           StoreLayout.tracks[k].trackId \notin {calls[i].track_id, calls[j].track_id}
               => depot_file.data[1].tracks[k] = StoreLayout.tracks[k]

\* C29: once two update_track_status calls on two different tracks have both
\* returned success, overlapping or not, the stored layout shows the new
\* status of both tracks and is unchanged for every other track; a call for
\* an unknown track returns an error and leaves the stored layout unchanged.
C29_BothUpdatesTakeEffect ==
    [][/\ \A i, j \in 1..MaxCalls : BothReturned(i, j)' => BothTookEffect(i, j)'
       /\ \A i \in 1..MaxCalls :
              (/\ calls[i].pc = "idle"
               /\ calls'[i].op = "update"
               /\ calls'[i].track_id \notin LayoutTracks)
              => /\ calls'[i].pc = "done"
                 /\ calls'[i].result = "error"
                 /\ depot_file' = depot_file]_vars

-----------------------------------------------------------------------------
(* The priority of the work-order requests (priority.py)                    *)

Requests == {i \in 1..Len(evaluations) : evaluations[i].request # None}

\* C25: the priority a request carries is an integer in 1..5, and it is
\* monotone in the urgency: of two requests, the one of the higher urgency
\* never carries the larger number (1 is the highest priority).
C25_RequestPriorityBoundedMonotone ==
    /\ \A i \in Requests : evaluations[i].request[1].priority \in 1..5
    /\ \A i, j \in Requests :
           evaluations[i].urgency < evaluations[j].urgency
               => evaluations[j].request[1].priority <= evaluations[i].request[1].priority
    /\ wo_request # None =>
           wo_request = evaluations[Len(evaluations)].request

\* a request of urgency 71.0 carried priority 3 and a request of an urgency
\* over 140 carried priority 1, where six less the number of twenties is
\* under one
C25_Witness ==
    \E i, j \in Requests :
        /\ evaluations[i].urgency = 710
        /\ evaluations[i].request[1].priority = 3
        /\ evaluations[j].urgency >= 1400
        /\ evaluations[j].request[1].priority = 1

-----------------------------------------------------------------------------
(* From telemetry to work order (realtime_consumer.py, priority.py)         *)

\* C26: with the consumer's criticality 70 and time_since_maint 40 and the
\* threshold 70, a request is posted for a condition record exactly when its
\* severity is Critical, that is when its score is 30 or less; an anomalous
\* sample has urgency 76.0 and is posted.
C26_RequestExactlyWhenCritical ==
    evaluations # <<>> =>
        LET e == evaluations[1]
            record == out[1]
        IN  /\ e.inputs = <<record.condition_score, record.fault_severity, 70, 40>>
            /\ e.posted <=> record.fault_severity = "Critical"
            /\ record.fault_severity = "Critical" <=> record.condition_score <= 300
            /\ sample[1].is_anom => (e.urgency = 760 /\ e.posted)
            /\ e.posted <=> e.request # None

\* a sample that is not anomalous scored exactly 30.0, was Critical and got
\* a request at urgency 71.5, which was delivered
C26_Witness ==
    /\ evaluations # <<>>
    /\ ~sample[1].is_anom
    /\ out[1].condition_score = 300
    /\ evaluations[1].urgency = 715
    /\ evaluations[1].posted
    /\ wo_result = "ok"

-----------------------------------------------------------------------------
(* The priority text of the job cards (job_card_priority_integration.py)    *)

\* the order of the priority texts, Low < Medium < High < Critical
\* the job-card manager fed payloads whose urgencies are 70.0, 91.0 and 145.0
CardPayloads ==
    { <<200, "High", 70, 40>>, <<0, "Critical", 100, 40>>,
      <<0, "Critical", 100, 400>> }

CardsNext ==
    \/ \E c \in Coaches, p \in CardPayloads, o \in PostOutcomes :
          update_coach_priority(c, p[1], p[2], p[3], p[4], o)
    \/ get_priority_rankings

SpecCards == Init /\ [][CardsNext]_vars

LabelRank(text) ==
    CASE text = "Low" -> 1
      [] text = "Medium" -> 2
      [] text = "High" -> 3
      [] text = "Critical" -> 4

\* C27: the priority text of an auto-created job card is monotone in the
\* urgency: a job card created for a higher urgency score than the job card
\* before it carries a text at least as urgent.
C27_CardTextMonotone ==
    [][(/\ mgr_job_card.card # None
        /\ mgr_job_card'.card # None
        /\ mgr_entry[1].priority_score < mgr_entry'[1].priority_score)
       => LabelRank(mgr_job_card'.card[1].Priority)
              >= LabelRank(mgr_job_card.card[1].Priority)]_vars

-----------------------------------------------------------------------------
(* The business rules of the optimization engines                           *)

EngineNext ==
    \/ \E certs \in EngineCerts, open_jobs \in EngineOpenJobs, usage \in EngineUsages,
          risk_answer \in ModelRisks, decision_answer \in ModelDecisions :
          fallback_main_ml(certs, open_jobs, usage, risk_answer, decision_answer)
    \/ \E certs \in EngineCerts, open_jobs \in EngineOpenJobs, usage \in EngineUsages :
          fallback_main_rules(certs, open_jobs, usage)
    \/ \E certs \in EngineCerts, open_jobs \in EngineOpenJobs,
          critical_jobs \in EngineCriticalJobs, usage \in EngineUsages :
          simple_main(certs, open_jobs, critical_jobs, usage)

SpecEngine == Init /\ [][EngineNext]_vars

\* C30: the recommended action of a train with at least one expired
\* certificate is never Service, in either engine.
C30_ExpiredNeverService ==
    \A i \in 1..Len(train_recommendations) :
        train_recommendations[i].features.Expired_Certificates > 0
            => train_recommendations[i].recommended_action # "Service"

=============================================================================
